---------------------------- MODULE Spec2Model ----------------------------
(***************************************************************************)
(* Booking concierge webhook: the three revisions of the Dialogflow        *)
(* webhook handler kept in the repository, as one state machine.           *)
(*                                                                         *)
(*   "package"  src/index.js 1-1139     (Booking Intent, packages, add-ons,*)
(*                                       CollectContactDetails)            *)
(*   "steps"    src/index.js 1141-1968  (step-by-step: booking type, guest *)
(*                                       count, date/time, venue, contact) *)
(*   "unified"  src/unnamed/part_000    (Booking Intent + group leads)     *)
(*                                                                         *)
(* A JavaScript object is a function from its keys to its values; a key    *)
(* that is undefined is not in the DOMAIN.  One session is modelled; a     *)
(* context is named by its logical name (the part after "/contexts/").     *)
(* The platform (Dialogflow) is the environment: it keeps the session's    *)
(* active contexts and sends them with the next request; a caller may also *)
(* send contexts of its own.                                               *)
(***************************************************************************)
EXTENDS Integers, Sequences, FiniteSets, TLC

(***************************************************************************)
(* Bounds of the model and program constants.                              *)
(***************************************************************************)
\* largest guest count a turn supplies
MaxGuestCount == 11
\* last booking day a turn supplies (day 0 = first day of the calendar)
MaxDay == 1
\* most records of a Venues table looked up on its own
MaxRecords == 2

\* guestCount <= 10 ? "a general reservation" : "a group booking"
CategoryLimit == 10
\* Asia/Dubai is UTC+4 all year: 240 minutes
DubaiOffset == 240
MinutesPerDay == 24 * 60

Handlers == {"package", "steps", "unified"}

GuestCounts == {0} \cup ((CategoryLimit - 1)..MaxGuestCount)

\* venue records of the record store ("Venues" table)
VenueRecords ==
  << [id |-> "recRooftop", space_name |-> "Rooftop", standing_capacity |-> 40],
     [id |-> "recCellar",  space_name |-> "Cellar",  standing_capacity |-> 9] >>

(***************************************************************************)
(* JavaScript objects and values.                                          *)
(***************************************************************************)
EmptyBag == [k \in {} |-> ""]

Has(b, k) == k \in DOMAIN b

\* keys whose values are numbers (0 is falsy)
NumKeys == {"guestCount", "guest_count", "number", "newGuestCount", "grand_total",
            "total_add_ons_cost", "total_packages_cost"}

\* keys whose values are dates, times and instants: non-empty strings in the
\* program, always truthy when present
StampKeys == {"bookingUTC", "bookingDate", "bookingTime", "date", "time",
              "bookingdate", "bookingtime", "newDate", "newTime"}

\* JavaScript truthiness of b[k]: undefined, "" and 0 are falsy
Truthy(b, k) ==
  /\ Has(b, k)
  /\ CASE k \in NumKeys   -> b[k] # 0
       [] k \in StampKeys -> TRUE
       [] OTHER           -> b[k] # ""

\* b with key k set to v
Put(b, k, v) == (k :> v) @@ b

\* { k: src[k] } for the keys of ks that src defines
Pick(src, ks) == [k \in (DOMAIN src) \cap ks |-> src[k]]

\* String.prototype.toLowerCase on the names used here
ToLowerCase(s) ==
  CASE s = "Rooftop" -> "rooftop"
    [] s = "Cellar"  -> "cellar"
    [] OTHER         -> s

(***************************************************************************)
(* Time conversion.  A date is a day number, a time of day is minutes      *)
(* after midnight, a UTC instant is minutes after 00:00 UTC of day 0.      *)
(***************************************************************************)
\* moment.tz(`${date} ${time}`, ..., "Asia/Dubai").toISOString()
buildDubaiUTC(date, time) == date * MinutesPerDay + time - DubaiOffset

\* moment.utc(utcIso).tz("Asia/Dubai"): the Dubai wall clock of an instant
DubaiMoment(utc) ==
  [day |-> (utc + DubaiOffset) \div MinutesPerDay,
   min |-> (utc + DubaiOffset) % MinutesPerDay]

\* the calendar: day 0 is Saturday 5 July 2025; July has 31 days
Weekdays == << "Saturday", "Sunday", "Monday", "Tuesday", "Wednesday",
               "Thursday", "Friday" >>
FirstDay == [D |-> 5, month |-> "July", length |-> 31, next |-> "August"]

\* format("dddd"), format("D MMMM") for the days of July and August 2025
DayName(day) == Weekdays[(day % 7) + 1]
DayOfMonth(day) ==
  IF FirstDay.D + day <= FirstDay.length
  THEN [D |-> FirstDay.D + day, month |-> FirstDay.month]
  ELSE [D |-> FirstDay.D + day - FirstDay.length, month |-> FirstDay.next]

\* (a variant that formats the UTC wall clock instead of the Dubai one)
formatUTC(utc) ==
  LET day == utc \div MinutesPerDay
      min == utc % MinutesPerDay
      hour == min \div 60
  IN [date |-> [dddd |-> DayName(day), DMMMM |-> DayOfMonth(day)],
      time |-> [h |-> IF hour % 12 = 0 THEN 12 ELSE hour % 12,
                mm |-> min % 60,
                A |-> IF hour < 12 THEN "AM" ELSE "PM"],
      local_datetime |-> [day |-> day, HH |-> hour, mm |-> min % 60, ss |-> 0]]

\* formatDubai(utcIso): date "dddd, D MMMM", time "h:mm A" and
\* local_datetime "YYYY-MM-DD HH:mm:ss" of the Dubai wall clock
formatDubai(utc) ==
  LET m == DubaiMoment(utc)
      hour == m.min \div 60
  IN [date |-> [dddd |-> DayName(m.day), DMMMM |-> DayOfMonth(m.day)],
      time |-> [h |-> IF hour % 12 = 0 THEN 12 ELSE hour % 12,
                mm |-> m.min % 60,
                A |-> IF hour < 12 THEN "AM" ELSE "PM"],
      local_datetime |-> [day |-> m.day, HH |-> hour, mm |-> m.min % 60, ss |-> 0]]

\* The "HH:mm" read from a platform timestamp <date>T<HH:mm:ss><offset>:
\* the literal digits between 'T' and '+' when the offset has a '+',
\* otherwise moment(raw).format("HH:mm"), the server's local time of the
\* instant (tz = the server's UTC offset in minutes).
ExtractTime(raw, tz) ==
  IF raw.sign = "+"
  THEN raw.min
  ELSE (raw.min - raw.off + tz) % MinutesPerDay

(***************************************************************************)
(* Requests.  contexts is the sequence queryResult.outputContexts; each    *)
(* context is [name, parameters] or [name] alone.                          *)
(***************************************************************************)
HasContext(contexts, contextName) ==
  \E i \in 1..Len(contexts) : contexts[i].name = contextName

\* contexts.find(c => c.name.endsWith(`/contexts/${contextName}`))
findContext(contexts, contextName) ==
  contexts[CHOOSE i \in 1..Len(contexts) :
             /\ contexts[i].name = contextName
             /\ \A j \in 1..(i - 1) : contexts[j].name # contextName]

\* bookingFlowCtx?.parameters || {}
ParametersOrEmpty(contexts, contextName) ==
  IF /\ HasContext(contexts, contextName)
     /\ Has(findContext(contexts, contextName), "parameters")
  THEN findContext(contexts, contextName).parameters
  ELSE EmptyBag

\* getParameter: the current turn's parameter when truthy, else the first
\* context (in request order) whose parameters hold a truthy value under
\* that name, else undefined.  The result is { paramName: value } or {}.
getParameter(parameters, contexts, paramName) ==
  IF Truthy(parameters, paramName)
  THEN Pick(parameters, {paramName})
  ELSE LET hits == { i \in 1..Len(contexts) :
                       /\ Has(contexts[i], "parameters")
                       /\ Truthy(contexts[i].parameters, paramName) }
       IN IF hits = {}
          THEN EmptyBag
          ELSE Pick(contexts[CHOOSE i \in hits : \A j \in hits : i <= j].parameters,
                    {paramName})

\* an output context without / with a parameter bag
Ctx(name, lifespan) == [name |-> name, lifespanCount |-> lifespan]
CtxP(name, lifespan, parameters) ==
  [name |-> name, lifespanCount |-> lifespan, parameters |-> parameters]

(***************************************************************************)
(* External collaborators.  env holds what they do during one request:     *)
(*   env.venues, env.store, env.mail \in {"ok", "fail"}                    *)
(*   env.gemini \in {"ok", "empty", "error"}                               *)
(*   env.tz     the server's UTC offset, env.today the server's date       *)
(***************************************************************************)
\* which revisions declare inputContexts (src/index.js:1454) and define
\* sendEmailWithPdf (src/index.js:1373); part_000 uses both, declares neither
inputContextsDeclared(h) == h = "steps"
sendEmailWithPdfDefined(h) == h = "steps"

\* generateGeminiReply: the text answered for a prompt
generateGeminiReply(h, fetchReady, env, prompt) ==
  IF h = "steps"
  THEN [kind |-> "literal", of |-> prompt]
  ELSE IF ~fetchReady
       THEN [kind |-> "fallback", of |-> "NOT_READY"]
       ELSE CASE env.gemini = "ok"    -> [kind |-> "generated", of |-> prompt]
              [] env.gemini = "empty" -> [kind |-> "fallback", of |-> "NO_REPLY"]
              [] OTHER                -> [kind |-> "fallback", of |-> "API_ERROR"]

\* the fixed replies of generateGeminiReply
NotReadyText == "There was a technical issue. Please try again shortly."
NoReplyText == "Sorry, I didn't get a proper response. Can I help you another way?"
ApiErrorText ==
  "There was a technical issue getting the information. Please try again shortly."

\* data?.candidates?.[0]?.content?.parts?.[0]?.text, << >> when undefined
CandidateText(data) ==
  IF ~Has(data, "candidates") \/ Len(data.candidates) = 0 THEN << >>
  ELSE LET c == data.candidates[1]
       IN IF ~Has(c, "content") \/ ~Has(c.content, "parts") THEN << >>
          ELSE IF Len(c.content.parts) = 0 \/ ~Has(c.content.parts[1], "text")
          THEN << >>
          ELSE << c.content.parts[1].text >>

\* (a variant that returns the candidate's text untested)
askGeminiUntested(fetchReady, remote) ==
  IF ~fetchReady
  THEN [threw |-> FALSE, reply |-> NotReadyText, posts |-> 0]
  ELSE IF remote.kind # "json"
  THEN [threw |-> FALSE, reply |-> ApiErrorText, posts |-> 1]
  ELSE LET reply == CandidateText(remote.data)
       IN IF reply = << >>
          THEN [threw |-> FALSE, reply |-> NoReplyText, posts |-> 1]
          ELSE [threw |-> FALSE, reply |-> reply[1], posts |-> 1]

\* generateGeminiReply(prompt) of "package" and "unified", step by step.
\*   remote.kind: "rejects" (fetch rejects), "text" (response.json() rejects),
\*                "json" (the body parsed, remote.data)
\*   posts: the number of requests sent
askGemini(fetchReady, remote) ==
  IF ~fetchReady
  THEN [threw |-> FALSE, reply |-> NotReadyText, posts |-> 0]
  ELSE IF remote.kind # "json"
  THEN [threw |-> FALSE, reply |-> ApiErrorText, posts |-> 1]      \* catch
  ELSE LET reply == CandidateText(remote.data)
       IN IF reply = << >> \/ reply[1] = ""                         \* !reply
          THEN [threw |-> FALSE, reply |-> NoReplyText, posts |-> 1]
          ELSE [threw |-> FALSE, reply |-> reply[1], posts |-> 1]

\* the Venue shape of one record
VenueOf(r) == [id |-> r.id, name |-> r.space_name,
               standing_capacity |-> r.standing_capacity]

\* (a variant whose capacity filter is strict)
fetchVenuesStrict(h, records, guestCount, fetched) ==
  IF h = "steps"
  THEN IF ~fetched
       THEN [threw |-> TRUE, venues |-> << >>]
       ELSE [threw |-> FALSE,
             venues |-> [i \in 1..Len(records) |->
                           [id |-> records[i].id,
                            name |-> IF Has(records[i], "space_name")
                                     THEN records[i].space_name ELSE ""]]]
  ELSE IF ~fetched
  THEN [threw |-> FALSE, venues |-> << >>]
  ELSE
    LET kept == SelectSeq(records,
                          LAMBDA r : \/ guestCount = 0
                                     \/ /\ Has(r, "standing_capacity")
                                        /\ r.standing_capacity > guestCount)
        mapped == [i \in 1..Len(kept) |->
                     [id |-> kept[i].id,
                      name |-> IF Has(kept[i], "space_name")
                               THEN kept[i].space_name ELSE "",
                      standing_capacity |-> IF Has(kept[i], "standing_capacity")
                                            THEN kept[i].standing_capacity ELSE 0]]
    IN [threw |-> FALSE, venues |-> SelectSeq(mapped, LAMBDA v : v.name # "")]

\* One call of getAvailableVenues over the records of the Venues table;
\* fetched: the request to the record store succeeded.
\*   "package", "unified": inside try, records.filter(capacity).map().filter(name);
\*                         [] from the catch block
\*   "steps": no filter and no try, the rejection of select() propagates
fetchVenues(h, records, guestCount, fetched) ==
  IF h = "steps"
  THEN IF ~fetched
       THEN [threw |-> TRUE, venues |-> << >>]
       ELSE [threw |-> FALSE,
             venues |-> [i \in 1..Len(records) |->
                           [id |-> records[i].id,
                            name |-> IF Has(records[i], "space_name")
                                     THEN records[i].space_name ELSE ""]]]
  ELSE IF ~fetched
  THEN [threw |-> FALSE, venues |-> << >>]
  ELSE
    LET kept == SelectSeq(records,
                          LAMBDA r : \/ guestCount = 0
                                     \/ /\ Has(r, "standing_capacity")
                                        /\ r.standing_capacity >= guestCount)
        mapped == [i \in 1..Len(kept) |->
                     [id |-> kept[i].id,
                      name |-> IF Has(kept[i], "space_name")
                               THEN kept[i].space_name ELSE "",
                      standing_capacity |-> IF Has(kept[i], "standing_capacity")
                                            THEN kept[i].standing_capacity ELSE 0]]
    IN [threw |-> FALSE, venues |-> SelectSeq(mapped, LAMBDA v : v.name # "")]

\* getAvailableVenues(guestCount) of "package" and "unified" over VenueRecords;
\* minCapacity = 0 stands for "no filter".
getAvailableVenues(minCapacity, env) ==
  fetchVenues("unified", VenueRecords, minCapacity, env.venues = "ok").venues

\* the first venue matching a lower-cased name with room for the guests
\* (capacity = 0: no capacity test); << >> when none matches
MatchVenue(venues, lowerName, capacity) ==
  SelectSeq(venues, LAMBDA v : /\ ToLowerCase(v.name) = lowerName
                               /\ v.standing_capacity >= capacity)

\* the package, add-on and total fields of a Bookings record
PricingKeys == {"package_name", "package_id", "selected_add_ons", "grand_total"}

\* The pricing fields that createBooking gives a value (set) and the ones it
\* sets to null (nulls).
\*   "steps", "unified": a table draft gets its packages, package ids and
\*     add-ons when it has them, and grand_total || 0; a group draft gets
\*     four nulls; any other type gets none of the fields
\*   "package": a group draft gets its packages, package ids and its total
Pricing(h, bookingDetails) ==
  LET type == IF Has(bookingDetails, "type") THEN bookingDetails.type ELSE ""
      opt(from, to) == IF Truthy(bookingDetails, from)
                       THEN to :> bookingDetails[from] ELSE EmptyBag
  IN IF h = "package"
     THEN [set |-> IF type = "group"
                   THEN (IF Has(bookingDetails, "packages")
                         THEN "package_name" :> bookingDetails.packages ELSE EmptyBag)
                          @@ opt("package_ids", "package_id")
                          @@ (IF Has(bookingDetails, "grand_total")
                              THEN "grand_total" :> bookingDetails.grand_total
                              ELSE EmptyBag)
                   ELSE EmptyBag,
           nulls |-> {}]
     ELSE IF type = "table"
     THEN [set |-> opt("packages", "package_name") @@ opt("package_ids", "package_id")
                     @@ opt("selected_add_ons", "selected_add_ons")
                     @@ ("grand_total" :> IF Truthy(bookingDetails, "grand_total")
                                          THEN bookingDetails.grand_total ELSE 0),
           nulls |-> {}]
     ELSE IF type = "group"
     THEN [set |-> EmptyBag, nulls |-> PricingKeys]
     ELSE [set |-> EmptyBag, nulls |-> {}]

\* createBooking(bookingDetails[, status]): the outcome of one call.
\*   threw  - the call raised "Failed to create booking"
\*   posted - a record was submitted to the record store
\*   fields - the record built for submission
\*   nulls  - the fields of the record that are set to null
createBooking(h, bookingDetails, status, env) ==
  LET type == IF Has(bookingDetails, "type") THEN bookingDetails.type ELSE ""
      \* "package": grand_total.toFixed(2) of a group draft without a total
      \* throws inside the try block, before the POST
      early == h = "package" /\ type = "group" /\ ~Has(bookingDetails, "grand_total")
      fields ==
        Put(Pick(bookingDetails,
                 CASE h = "package" ->
                        {"full_name", "mobile_number", "email_id", "type", "bookingUTC",
                         "guest_count", "venue", "space_id"}
                   [] h = "steps" ->
                        {"type", "full_name", "email_id", "phone_number", "guestCount",
                         "bookingDate", "bookingTime", "venue_id"}
                   [] OTHER ->
                        {"full_name", "phone_number", "email_id", "type", "bookingUTC",
                         "guestCount", "venue", "venue_id"}),
            "status", IF h = "package" THEN "Confirmed" ELSE status)
          @@ Pricing(h, bookingDetails).set
      posted == ~early
      ok == posted /\ env.store = "ok"
  IN [op |-> "createBooking", details |-> bookingDetails, status |-> fields.status,
      fields |-> fields, nulls |-> Pricing(h, bookingDetails).nulls,
      posted |-> posted, ok |-> ok]

\* sendEmailWithPdf(toEmail, customerName): true when the transport accepted
\* the message, false when sendMail rejected
sendEmailWithPdf(bookingDetails, env) ==
  [op |-> "sendEmailWithPdf", to |-> Pick(bookingDetails, {"email_id"}),
   ok |-> env.mail = "ok"]

\* sendEmailWithPdf of "steps", step by step.  config: which of the
\* settings EMAIL_SERVICE_HOST, EMAIL_SERVICE_USER and PDF_URL are set;
\* accepts: the mail server takes the message.  A transport without a host
\* has no server to reach, so its sendMail rejects.
\*   handed - the message was passed to transporter.sendMail
\*   href   - the link written into the message
\*   sent   - the value returned
mailPdf(config, toEmail, accepts) ==
  LET pdfUrl == IF config.PDF_URL THEN "https://example.com/packages.pdf"
                ELSE "undefined"
      resolved == config.EMAIL_SERVICE_HOST /\ accepts
  IN [threw |-> FALSE, handed |-> TRUE, to |-> toEmail, href |-> pdfUrl,
      sent |-> resolved]

(***************************************************************************)
(* State.                                                                  *)
(***************************************************************************)
VARIABLES
  handler,  \* the revision that is deployed
  fetch,    \* "package", "unified": TRUE once the dynamic import assigned fetch
  stored,   \* the platform's active contexts of the session: name -> [parameters]
  req,      \* the request last answered: intent, parameters, contexts
  resp,     \* its response: status, prompt, fulfillmentText, outputContexts
  calls,    \* the record-store and mail calls made while answering it
  clock,    \* a date and time under conversion by buildDubaiUTC / formatDubai
  probe,    \* one call of a helper on its own: its arguments and its outcome
  peer      \* the platform's active contexts of a second session

vars == <<handler, fetch, stored, req, resp, calls, clock, probe, peer>>

NoText == [kind |-> "none", of |-> ""]

\* res.json({ fulfillmentText, outputContexts })
Respond(text, prompt, out, made) ==
  [status |-> 200, prompt |-> prompt, fulfillmentText |-> text,
   outputContexts |-> out, calls |-> made]

\* (a variant that gives up when the reply is one of the fixed ones)
SayOrGiveUp(h, fetchReady, env, prompt, out, made) ==
  LET text == generateGeminiReply(h, fetchReady, env, prompt)
  IN IF text.kind = "fallback"
     THEN [status |-> 500, prompt |-> prompt, fulfillmentText |-> text,
           outputContexts |-> << >>, calls |-> made]
     ELSE [status |-> 200, prompt |-> prompt, fulfillmentText |-> text,
           outputContexts |-> out, calls |-> made]

\* res.json({ fulfillmentText: await generateGeminiReply(prompt), outputContexts })
Say(h, fetchReady, env, prompt, out, made) ==
  Respond(generateGeminiReply(h, fetchReady, env, prompt), prompt, out, made)

\* res.json with a fixed or template text
Literal(prompt, out, made) ==
  Respond([kind |-> "literal", of |-> prompt], prompt, out, made)

\* An exception that leaves the intent's block: the outer catch of the
\* handler answers 500; "steps" has no outer try, the promise rejects and
\* no response is sent (status 0).
OuterCatch(h, fetchReady, env, made) ==
  CASE h = "package" ->
         [status |-> 500, prompt |-> "technical_issue",
          fulfillmentText |-> generateGeminiReply(h, fetchReady, env, "technical_issue"),
          outputContexts |-> << >>, calls |-> made]
    [] h = "unified" ->
         [status |-> 500, prompt |-> "unexpected_error",
          fulfillmentText |-> [kind |-> "literal", of |-> "unexpected_error"],
          outputContexts |-> << >>, calls |-> made]
    [] OTHER ->
         [status |-> 0, prompt |-> "", fulfillmentText |-> NoText,
          outputContexts |-> << >>, calls |-> made]

(***************************************************************************)
(* The platform.  Lifespans are not counted down.  booking-flow (emitted   *)
(* with lifespan 5 or 2) stays active until a response emits it with       *)
(* lifespanCount 0; emitted with parameters it takes the new bag, emitted  *)
(* without parameters it keeps the bag it had.  The other contexts are     *)
(* short-lived (lifespan 1 or 2): the ones sent with the next request are  *)
(* those of the last response that emitted contexts, without those emitted *)
(* with lifespanCount 0.  Of these the ones that carry parameters and the  *)
(* two that mark a finished conversation are kept: the handlers look up no *)
(* context but booking-flow by name (findContext) and read nothing but the *)
(* parameters of the others (getParameter), so a context without           *)
(* parameters changes no answer.                                           *)
(***************************************************************************)
\* the contexts a successful Confirm Booking Intent leaves behind
TerminalMarkers == {"booking-finalized", "group-lead-submitted"}

\* the last context of that name in a response
LastEmitted(out, n) ==
  out[CHOOSE i \in 1..Len(out) :
        /\ out[i].name = n
        /\ \A j \in (i + 1)..Len(out) : out[j].name # n]

Platform(store, out) ==
  IF out = << >>
  THEN store
  ELSE LET names == { out[i].name : i \in 1..Len(out) }
           live == { n \in names :
                       /\ LastEmitted(out, n).lifespanCount > 0
                       /\ \/ n = "booking-flow"
                          \/ n \in TerminalMarkers
                          \/ Has(LastEmitted(out, n), "parameters") }
           keepFlow == Has(store, "booking-flow") /\ "booking-flow" \notin names
           dom == live \cup (IF keepFlow THEN {"booking-flow"} ELSE {})
       IN [n \in dom |->
             IF n \notin live THEN store[n]
             ELSE IF Has(LastEmitted(out, n), "parameters")
                  THEN [parameters |-> LastEmitted(out, n).parameters]
                  ELSE IF Has(store, n) THEN store[n] ELSE EmptyBag]

\* the order in which the platform lists the active contexts
CtxOrder ==
  << "booking-flow", "awaiting-booking-type", "awaiting-guest-count",
     "awaiting-datetime", "awaiting-venue-selection", "awaiting-contact-details",
     "awaiting-guest-details", "awaiting-confirmation", "awaiting-final-confirmation",
     "awaiting-modify-slot", "awaiting-restart-or-cancel", "booking-finalized",
     "group-lead-submitted", "dialogflow-params" >>

\* queryResult.outputContexts of the next request
AsContexts(store) ==
  LET present == SelectSeq(CtxOrder, LAMBDA n : Has(store, n))
  IN [i \in 1..Len(present) |-> Put(store[present[i]], "name", present[i])]

(***************************************************************************)
(* Confirm Booking Intent.                                                 *)
(***************************************************************************)
\* (a variant that lets the draft live on after the record was written)
FinalizedKeepingDraft(marker, awaiting) ==
  << Ctx(marker, 1), Ctx("booking-flow", 2), Ctx(awaiting, 0) >>

\* the contexts of a finished conversation: the terminal marker, and
\* booking-flow and the confirmation marker expired
FinalizedContexts(marker, awaiting) ==
  << Ctx(marker, 1), Ctx("booking-flow", 0), Ctx(awaiting, 0) >>

\* the contexts after a failed write: the draft stays for another try
RetryContexts == << Ctx("booking-flow", 2), Ctx("awaiting-confirmation", 0) >>

\* (a variant with the two statuses exchanged)
StatusSwapped(type) == IF type = "table" THEN "New Lead" ELSE "Confirmed"

\* the status argument of createBooking: 'Confirmed' for a table, 'New Lead'
\* for a group
StatusOf(type) == IF type = "table" THEN "Confirmed" ELSE "New Lead"

\* (a variant in which a rejected write does not leave the try block)
ReturnedAlways(cb) == TRUE

\* await createBooking(...) returned: the statements after it in the try run
Returned(cb) == cb.ok

\* (a variant that ignores the outcome of the mail)
GroupReplyAlwaysSent(emailSent) == "group_received_email_sent"

\* if (emailSent) ... else ...: the wording of the group reply
GroupReply(emailSent) ==
  IF emailSent THEN "group_received_email_sent" ELSE "group_received_email_trouble"

\* "package": createBooking(bookingDetails) then createBookingAddons
ConfirmPackage(h, fetchReady, contexts, env) ==
  IF ~HasContext(contexts, "booking-flow")
  THEN Say(h, fetchReady, env, "lost_details", << >>, << >>)
  ELSE
    LET ctx == findContext(contexts, "booking-flow")
        bookingDetails == IF Has(ctx, "parameters") THEN ctx.parameters ELSE EmptyBag
        made == createBooking(h, bookingDetails, "Confirmed", env)
        \* createBooking(undefined): bookingDetails.bookingUTC throws in its try
        cb == IF Has(ctx, "parameters") THEN made
              ELSE [made EXCEPT !.posted = FALSE, !.ok = FALSE]
        withAddOns == Returned(cb) /\ Truthy(bookingDetails, "selected_add_ons")
        addOns == [op |-> "createBookingAddons", ok |-> env.addons = "ok"]
        done == IF withAddOns THEN <<cb, addOns>> ELSE <<cb>>
        good == Returned(cb) /\ (withAddOns => addOns.ok)
    IN Say(h, fetchReady, env,
           IF good THEN "booking_confirmed" ELSE "finalize_issue",
           FinalizedContexts("booking-finalized", "awaiting-final-confirmation"),
           done)

\* "steps" and "unified": createBooking(bookingDetails, status) by type
ConfirmByType(h, fetchReady, contexts, env) ==
  IF ~inputContextsDeclared(h)
  THEN OuterCatch(h, fetchReady, env, << >>)        \* ReferenceError: inputContexts
  ELSE IF ~HasContext(contexts, "booking-flow")
  THEN Say(h, fetchReady, env, "lost_details", << >>, << >>)
  ELSE IF ~Has(findContext(contexts, "booking-flow"), "parameters")
  THEN OuterCatch(h, fetchReady, env, << >>)        \* TypeError: undefined.type
  ELSE
    LET bookingDetails == findContext(contexts, "booking-flow").parameters
        type == IF Has(bookingDetails, "type") THEN bookingDetails.type ELSE ""
    IN CASE type = "table" ->
              LET cb == createBooking(h, bookingDetails, StatusOf(type), env)
              IN IF Returned(cb)
                 THEN Say(h, fetchReady, env, "table_confirmed",
                          FinalizedContexts("booking-finalized", "awaiting-confirmation"),
                          <<cb>>)
                 ELSE Say(h, fetchReady, env, "table_issue", RetryContexts, <<cb>>)
         [] type = "group" ->
              LET cb == createBooking(h, bookingDetails, StatusOf(type), env)
                  mail == sendEmailWithPdf(bookingDetails, env)
              IN IF ~Returned(cb)
                 THEN Say(h, fetchReady, env, "group_issue", RetryContexts, <<cb>>)
                 ELSE IF ~sendEmailWithPdfDefined(h)   \* ReferenceError in the try
                 THEN Say(h, fetchReady, env, "group_issue", RetryContexts, <<cb>>)
                 ELSE Say(h, fetchReady, env, GroupReply(mail.ok),
                          FinalizedContexts("group-lead-submitted", "awaiting-confirmation"),
                          <<cb, mail>>)
         [] OTHER ->
              Say(h, fetchReady, env, "unknown_type",
                  << Ctx("booking-flow", 0), Ctx("awaiting-confirmation", 0) >>, << >>)

ConfirmBooking(h, fetchReady, contexts, env) ==
  IF h = "package"
  THEN ConfirmPackage(h, fetchReady, contexts, env)
  ELSE ConfirmByType(h, fetchReady, contexts, env)

(***************************************************************************)
(* Booking Intent and ModifyBookingIntent ("package", "unified").          *)
(***************************************************************************)
\* the server's clock, read by moment() of an undefined value
Now(env) == buildDubaiUTC(env.today, 12 * 60)

\* category === "a general reservation" ? "table" : "group", where
\* category = guestCount <= 10 ? ...; an undefined guestCount compares false
InferType(parameters) ==
  IF Has(parameters, "guestCount") /\ parameters.guestCount <= CategoryLimit
  THEN "table"
  ELSE "group"

\* the lookup logged in calls: its capacity filter and whether the fetch
\* succeeded
VenueLookup(env, minCapacity) ==
  [op |-> "getAvailableVenues", min |-> minCapacity, ok |-> env.venues = "ok"]

\* guestCount as the capacity threshold: 0 (no filter) when falsy
Threshold(bag) == IF Truthy(bag, "guestCount") THEN bag.guestCount ELSE 0

BookingIntent(h, fetchReady, parameters, env) ==
  IF ~Has(parameters, "bookingtime")
  THEN OuterCatch(h, fetchReady, env, << >>)     \* TypeError: undefined.indexOf
  ELSE
    LET date == IF Has(parameters, "bookingdate") THEN parameters.bookingdate
                ELSE env.today
        bookingTimeStr == ExtractTime(parameters.bookingtime, env.tz)
        bookingUTC == buildDubaiUTC(date, bookingTimeStr)
        venues == getAvailableVenues(Threshold(parameters), env)
        bag == Put(Put(Pick(parameters, {"guestCount"}), "bookingUTC", bookingUTC),
                   "type", InferType(parameters))
    IN Say(h, fetchReady, env,
           IF Len(venues) > 0 THEN "offer_venues" ELSE "no_venues",
           IF h = "unified"
           THEN << CtxP("booking-flow", 5, bag), Ctx("awaiting-venue-selection", 2) >>
           ELSE << CtxP("booking-flow", 5, bag) >>,
           << VenueLookup(env, Threshold(parameters)) >>)

\* (a variant that starts from the present moment, not from the stored one)
ModifyFromNow(h, fetchReady, parameters, contexts, env) ==
  LET old == Pick(ParametersOrEmpty(contexts, "booking-flow"),
                  {"guestCount", "bookingUTC", "type"})
      current == DubaiMoment(Now(env))
  IN IF /\ ~Truthy(parameters, "newGuestCount")
        /\ ~Has(parameters, "newDate")
        /\ ~Has(parameters, "newTime")
     THEN Literal("what_to_change",
                  << Ctx("awaiting-modify-slot", 1), CtxP("booking-flow", 5, old) >>,
                  << >>)
     ELSE
       LET withCount == IF Truthy(parameters, "newGuestCount")
                        THEN Put(old, "guestCount", parameters.newGuestCount)
                        ELSE old
           date == IF Has(parameters, "newDate") THEN parameters.newDate ELSE current.day
           time == IF Has(parameters, "newTime")
                   THEN ExtractTime(parameters.newTime, env.tz)
                   ELSE current.min
           bag == Put(withCount, "bookingUTC", buildDubaiUTC(date, time))
           venues == getAvailableVenues(Threshold(bag), env)
       IN Say(h, fetchReady, env,
              IF Len(venues) > 0 THEN "updated_booking" ELSE "no_venues_after_change",
              << CtxP("booking-flow", 5, bag) >>,
              << VenueLookup(env, Threshold(bag)) >>)

ModifyBookingIntent(h, fetchReady, parameters, contexts, env) ==
  LET old == Pick(ParametersOrEmpty(contexts, "booking-flow"),
                  {"guestCount", "bookingUTC", "type"})
      current == DubaiMoment(IF Has(old, "bookingUTC") THEN old.bookingUTC ELSE Now(env))
  IN IF /\ ~Truthy(parameters, "newGuestCount")
        /\ ~Has(parameters, "newDate")
        /\ ~Has(parameters, "newTime")
     THEN Literal("what_to_change",
                  << Ctx("awaiting-modify-slot", 1), CtxP("booking-flow", 5, old) >>,
                  << >>)
     ELSE
       LET withCount == IF Truthy(parameters, "newGuestCount")
                        THEN Put(old, "guestCount", parameters.newGuestCount)
                        ELSE old
           date == IF Has(parameters, "newDate") THEN parameters.newDate ELSE current.day
           time == IF Has(parameters, "newTime")
                   THEN ExtractTime(parameters.newTime, env.tz)
                   ELSE current.min
           bag == Put(withCount, "bookingUTC", buildDubaiUTC(date, time))
           venues == getAvailableVenues(Threshold(bag), env)
       IN Say(h, fetchReady, env,
              IF Len(venues) > 0 THEN "updated_booking" ELSE "no_venues_after_change",
              << CtxP("booking-flow", 5, bag) >>,
              << VenueLookup(env, Threshold(bag)) >>)

(***************************************************************************)
(* Ask Venue Details Intent ("package", "unified").                        *)
(***************************************************************************)
\* the key under which a revision stores the venue's record id
VenueIdKey(h) == IF h = "package" THEN "space_id" ELSE "venue_id"

AskVenueDetails(h, fetchReady, parameters, env) ==
  IF ~Truthy(parameters, "venue_name")
  THEN Literal("venue_name_missing", << >>, << >>)
  ELSE IF env.venues = "fail"
  THEN Literal("fetch_problem", << >>, << VenueLookup(env, 0) >>)
  ELSE
    LET all == [i \in 1..Len(VenueRecords) |-> VenueOf(VenueRecords[i])]
        match == MatchVenue(all, ToLowerCase(parameters.venue_name), 0)
    IN IF Len(match) = 0
       THEN Literal("venue_details_not_found", << >>, << VenueLookup(env, 0) >>)
       ELSE Say(h, fetchReady, env, "venue_details",
                << CtxP("booking-flow", 5,
                        Put(Put(EmptyBag, "venue", match[1].name),
                            VenueIdKey(h), match[1].id)) >>,
                << VenueLookup(env, 0) >>)

(***************************************************************************)
(* Select Venue Intent.                                                    *)
(***************************************************************************)
\* "package" and "unified"
SelectVenueDraft(h, fetchReady, parameters, contexts, env) ==
  LET draft == ParametersOrEmpty(contexts, "booking-flow")
      given == Truthy(parameters, "venue_name") /\ parameters.venue_name # "."
      \* (!venueRaw || venueRaw === '.') && contextVenueName
      fromContext == ~given /\ Truthy(draft, "venue")
      venueRaw == IF fromContext THEN Pick(draft, {"venue"})
                  ELSE IF Has(parameters, "venue_name")
                       THEN Put(EmptyBag, "venue", parameters.venue_name)
                       ELSE EmptyBag
  IN IF ~Truthy(draft, "guestCount") \/ ~Has(draft, "bookingUTC")
     THEN Literal("need_booking_details", << CtxP("booking-flow", 5, venueRaw) >>, << >>)
     ELSE IF ~Has(venueRaw, "venue")
     THEN Literal("venue_technical_issue", << >>, << >>)  \* TypeError, inner catch
     ELSE IF h = "package" /\ env.venues = "fail"
     THEN Literal("fetch_problem", << >>, << VenueLookup(env, 0) >>)
     ELSE
       LET lookup == IF h = "package" THEN VenueLookup(env, 0)
                     ELSE VenueLookup(env, draft.guestCount)
           venues == getAvailableVenues(lookup.min, env)
           match == MatchVenue(venues, ToLowerCase(venueRaw.venue), draft.guestCount)
       IN IF Len(match) = 0
          THEN Literal("venue_reprompt", << >>, <<lookup>>)
          ELSE
            LET bag == Put(Put(Pick(draft, {"guestCount", "bookingUTC", "type"}),
                               "venue", match[1].name),
                           VenueIdKey(h), match[1].id)
                isGroup == Has(draft, "type") /\ draft.type = "group"
                next ==
                  IF h = "unified" THEN "awaiting-contact-details"
                  ELSE IF isGroup /\ Truthy(draft, "packages")
                       THEN (IF env.addons = "ok" THEN "awaiting-add-on-selection"
                             ELSE "awaiting-guest-details")
                       ELSE IF isGroup THEN "awaiting-package-type-selection"
                            ELSE "awaiting-guest-details"
            IN Say(h, fetchReady, env,
                   CASE next = "awaiting-add-on-selection" -> "ask_add_ons"
                     [] next = "awaiting-package-type-selection" -> "ask_package_type"
                     [] OTHER -> "ask_contact_details",
                   << CtxP("booking-flow", 5, bag), Ctx(next, 2) >>,
                   <<lookup>>)

\* "unified": params.venue_name of any shape.  A shape is
\*   [kind |-> "missing"], [kind |-> "string", value |-> a string],
\*   [kind |-> "array", value |-> a sequence of strings], or
\*   [kind |-> "number", value |-> a number].
\* Array.isArray(params.venue_name) ? its last element : params.venue_name
LastOrItself(shape) ==
  CASE shape.kind = "string" -> [venue_name |-> shape.value]
    [] shape.kind = "array" /\ Len(shape.value) > 0 ->
         [venue_name |-> shape.value[Len(shape.value)]]
    [] OTHER -> EmptyBag

\* (a variant whose try block does not cover venueRaw.toLowerCase())
SelectVenueUncaught(h, fetchReady, shape, contexts, env) ==
  LET draft == ParametersOrEmpty(contexts, "booking-flow")
  IN IF shape.kind # "number"
     THEN SelectVenueDraft(h, fetchReady, LastOrItself(shape), contexts, env)
     ELSE IF shape.value = 0 /\ Truthy(draft, "venue")
     THEN SelectVenueDraft(h, fetchReady, EmptyBag, contexts, env)
     ELSE IF ~Truthy(draft, "guestCount") \/ ~Has(draft, "bookingUTC")
     THEN Literal("need_booking_details",
                  << CtxP("booking-flow", 5, [venue |-> shape.value]) >>, << >>)
     ELSE OuterCatch(h, fetchReady, env, << >>)

SelectVenueShaped(h, fetchReady, shape, contexts, env) ==
  LET draft == ParametersOrEmpty(contexts, "booking-flow")
  IN IF shape.kind # "number"
     THEN SelectVenueDraft(h, fetchReady, LastOrItself(shape), contexts, env)
     \* (!venueRaw || venueRaw === '.') && contextVenueName
     ELSE IF shape.value = 0 /\ Truthy(draft, "venue")
     THEN SelectVenueDraft(h, fetchReady, EmptyBag, contexts, env)
     ELSE IF ~Truthy(draft, "guestCount") \/ ~Has(draft, "bookingUTC")
     THEN Literal("need_booking_details",
                  << CtxP("booking-flow", 5, [venue |-> shape.value]) >>, << >>)
     \* TypeError: venueRaw.toLowerCase is not a function, inner catch
     ELSE Literal("venue_technical_issue", << >>, << >>)

\* "steps"
\* (a variant that keeps the name of the venue but not its record id)
SelectVenueUnlinked(h, fetchReady, parameters, contexts, env) ==
  LET venueName == getParameter(parameters, contexts, "venue_name")
      hasCtx == HasContext(contexts, "booking-flow")
      noBag == hasCtx /\ ~Has(findContext(contexts, "booking-flow"), "parameters")
      draft == ParametersOrEmpty(contexts, "booking-flow")
      all == [i \in 1..Len(VenueRecords) |-> VenueOf(VenueRecords[i])]
  IN IF env.venues = "fail"
     THEN OuterCatch(h, fetchReady, env, << VenueLookup(env, 0) >>)   \* select() rejects
     ELSE IF ~Has(venueName, "venue_name")
     THEN OuterCatch(h, fetchReady, env, << VenueLookup(env, 0) >>)   \* undefined.toLowerCase
     ELSE
       LET match == MatchVenue(all, ToLowerCase(venueName.venue_name), 0)
       IN IF Len(match) = 0
          THEN Say(h, fetchReady, env, "venue_not_found", << >>, << VenueLookup(env, 0) >>)
          ELSE IF noBag
          THEN OuterCatch(h, fetchReady, env, << VenueLookup(env, 0) >>) \* undefined.venue =
          ELSE Say(h, fetchReady, env, "ask_contact_details",
                   << CtxP("booking-flow", 5,
                           Put(draft, "venue", match[1].name)),
                      Ctx("awaiting-contact-details", 2) >>,
                   << VenueLookup(env, 0) >>)

SelectVenueSteps(h, fetchReady, parameters, contexts, env) ==
  LET venueName == getParameter(parameters, contexts, "venue_name")
      hasCtx == HasContext(contexts, "booking-flow")
      noBag == hasCtx /\ ~Has(findContext(contexts, "booking-flow"), "parameters")
      draft == ParametersOrEmpty(contexts, "booking-flow")
      all == [i \in 1..Len(VenueRecords) |-> VenueOf(VenueRecords[i])]
  IN IF env.venues = "fail"
     THEN OuterCatch(h, fetchReady, env, << VenueLookup(env, 0) >>)   \* select() rejects
     ELSE IF ~Has(venueName, "venue_name")
     THEN OuterCatch(h, fetchReady, env, << VenueLookup(env, 0) >>)   \* undefined.toLowerCase
     ELSE
       LET match == MatchVenue(all, ToLowerCase(venueName.venue_name), 0)
       IN IF Len(match) = 0
          THEN Say(h, fetchReady, env, "venue_not_found", << >>, << VenueLookup(env, 0) >>)
          ELSE IF noBag
          THEN OuterCatch(h, fetchReady, env, << VenueLookup(env, 0) >>) \* undefined.venue =
          ELSE Say(h, fetchReady, env, "ask_contact_details",
                   << CtxP("booking-flow", 5,
                           Put(Put(draft, "venue", match[1].name), "venue_id", match[1].id)),
                      Ctx("awaiting-contact-details", 2) >>,
                   << VenueLookup(env, 0) >>)

SelectVenue(h, fetchReady, parameters, contexts, env) ==
  IF h = "steps"
  THEN SelectVenueSteps(h, fetchReady, parameters, contexts, env)
  ELSE SelectVenueDraft(h, fetchReady, parameters, contexts, env)

(***************************************************************************)
(* The step-by-step intents of "steps".                                    *)
(***************************************************************************)
\* bookingFlowCtx ? bookingFlowCtx.parameters : {} is undefined when the
\* context came without parameters: the first write to it throws
DraftUndefined(contexts) ==
  /\ HasContext(contexts, "booking-flow")
  /\ ~Has(findContext(contexts, "booking-flow"), "parameters")

SelectBookingType(h, fetchReady, parameters, contexts, env) ==
  LET bookingType == getParameter(parameters, contexts, "booking_type")
      bag == IF Has(bookingType, "booking_type")
             THEN Put(EmptyBag, "type", bookingType.booking_type)
             ELSE EmptyBag
      known == Has(bag, "type") /\ bag.type \in {"table", "group"}
  IN Say(h, fetchReady, env,
         IF ~known THEN "unknown_booking_type"
         ELSE IF bag.type = "table" THEN "ask_guest_count_table"
              ELSE "ask_guest_count_group",
         IF known
         THEN << CtxP("booking-flow", 5, bag), Ctx("awaiting-guest-count", 2) >>
         ELSE << CtxP("booking-flow", 5, bag) >>,
         << >>)

CaptureGuestCount(h, fetchReady, parameters, contexts, env) ==
  LET guestCount == getParameter(parameters, contexts, "number")
  IN IF ~Has(guestCount, "number") \/ guestCount.number <= 0
     THEN Say(h, fetchReady, env, "valid_guest_count", << >>, << >>)
     ELSE IF DraftUndefined(contexts)
     THEN OuterCatch(h, fetchReady, env, << >>)
     ELSE Say(h, fetchReady, env, "ask_date_time",
              << CtxP("booking-flow", 5,
                      Put(ParametersOrEmpty(contexts, "booking-flow"),
                          "guestCount", guestCount.number)),
                 Ctx("awaiting-datetime", 2) >>,
              << >>)

\* moment.tz(`${date}T${time}`, 'YYYY-MM-DDTHH:mm:ss', 'Asia/Dubai').isValid()
ValidDateTime(date, time) ==
  /\ date >= 0
  /\ time.min \in 0..(MinutesPerDay - 1)

\* (a variant that reads the date and the time on a UTC clock)
CaptureDateTimeUTC(h, fetchReady, parameters, contexts, env) ==
  LET dateParam == getParameter(parameters, contexts, "date")
      timeParam == getParameter(parameters, contexts, "time")
  IN IF ~Has(dateParam, "date") \/ ~Has(timeParam, "time")
     THEN Say(h, fetchReady, env, "need_date_and_time", << >>, << >>)
     ELSE IF ~ValidDateTime(dateParam.date, timeParam.time)
     THEN Say(h, fetchReady, env, "bad_date_or_time", << >>, << >>)
     ELSE IF DraftUndefined(contexts)
     THEN OuterCatch(h, fetchReady, env, << >>)
     ELSE IF env.venues = "fail"
     THEN OuterCatch(h, fetchReady, env, << VenueLookup(env, 0) >>)
     ELSE
       LET bag == Put(Put(Put(ParametersOrEmpty(contexts, "booking-flow"),
                              "bookingDate", dateParam.date),
                          "bookingTime", timeParam.time.min),
                      "bookingUTC", dateParam.date * MinutesPerDay + timeParam.time.min)
       IN Say(h, fetchReady, env, "ask_venue",
              << CtxP("booking-flow", 5, bag), Ctx("awaiting-venue-selection", 2) >>,
              << VenueLookup(env, 0) >>)

CaptureDateTime(h, fetchReady, parameters, contexts, env) ==
  LET dateParam == getParameter(parameters, contexts, "date")
      timeParam == getParameter(parameters, contexts, "time")
  IN IF ~Has(dateParam, "date") \/ ~Has(timeParam, "time")
     THEN Say(h, fetchReady, env, "need_date_and_time", << >>, << >>)
     ELSE IF ~ValidDateTime(dateParam.date, timeParam.time)
     THEN Say(h, fetchReady, env, "bad_date_or_time", << >>, << >>)
     ELSE IF DraftUndefined(contexts)
     THEN OuterCatch(h, fetchReady, env, << >>)
     ELSE IF env.venues = "fail"
     THEN OuterCatch(h, fetchReady, env, << VenueLookup(env, 0) >>)
     ELSE
       \* the literal date of the date parameter, the literal time of the time
       \* parameter, read as Dubai wall clock
       LET bag == Put(Put(Put(ParametersOrEmpty(contexts, "booking-flow"),
                              "bookingDate", dateParam.date),
                          "bookingTime", timeParam.time.min),
                      "bookingUTC", buildDubaiUTC(dateParam.date, timeParam.time.min))
       IN Say(h, fetchReady, env, "ask_venue",
              << CtxP("booking-flow", 5, bag), Ctx("awaiting-venue-selection", 2) >>,
              << VenueLookup(env, 0) >>)

(***************************************************************************)
(* Contact details.                                                        *)
(***************************************************************************)
\* params[k] || ''
\* Array.prototype.join
RECURSIVE join(_, _)
join(seq, sep) ==
  IF Len(seq) = 0 THEN ""
  ELSE IF Len(seq) = 1 THEN seq[1]
  ELSE seq[1] \o sep \o join(Tail(seq), sep)

\* the prompts that name the contact fields still missing
StillNeed(missingFields) ==
  "I still need your " \o join(missingFields, " and ") \o " to finalize the booking."
ImMissing(missingFields) ==
  "I'm missing your " \o join(missingFields, ", ")
    \o ". Could you please provide all of them?"

\* if (!value) missingFields.push(field), for each tested field in turn
Pushed(tested) ==
  LET absent == SelectSeq(tested, LAMBDA f : f.absent)
  IN [i \in 1..Len(absent) |-> absent[i].field]

OrBlank(parameters, k) == IF Truthy(parameters, k) THEN parameters[k] ELSE ""

\* "package": CollectContactDetails
CollectContactDetails(h, fetchReady, parameters, contexts, env) ==
  IF ~HasContext(contexts, "booking-flow")
  THEN Say(h, fetchReady, env, "lost_details", << >>, << >>)
  ELSE IF DraftUndefined(contexts)
  THEN OuterCatch(h, fetchReady, env, << >>)      \* TypeError: undefined.full_name =
  ELSE
    LET fullName == OrBlank(parameters, "person")
        mobileNumber == OrBlank(parameters, "phone-number")
        emailAddress == OrBlank(parameters, "email")
        bookingDetails ==
          Put(Put(Put(findContext(contexts, "booking-flow").parameters,
                      "full_name", fullName),
                  "mobile_number", mobileNumber),
              "email_id", emailAddress)
        flow == CtxP("booking-flow", 5, bookingDetails)
    IN IF fullName # "" /\ mobileNumber # "" /\ emailAddress # ""
       THEN Say(h, fetchReady, env, "confirm_summary",
                << flow,
                   CtxP("awaiting-final-confirmation", 2,
                        [full_name |-> fullName, mobile_number |-> mobileNumber,
                         email_id |-> emailAddress]) >>,
                << >>)
       ELSE Say(h, fetchReady, env,
                StillNeed(Pushed(<< [absent |-> fullName = "", field |-> "full name"],
                                    [absent |-> mobileNumber = "", field |-> "mobile number"],
                                    [absent |-> emailAddress = "", field |-> "email address"] >>)),
                << flow,
                   CtxP("awaiting-guest-details", 2,
                        Put(Put(Put(EmptyBag, "person", fullName),
                                "phone-number", mobileNumber),
                            "email", emailAddress)) >>,
                << >>)

\* "steps" and "unified": Capture Contact Details Intent
CaptureContactDetails(h, fetchReady, parameters, contexts, env) ==
  LET fullName == getParameter(parameters, contexts, "full_name")
      emailId == getParameter(parameters, contexts, "email")
      phoneNumber == getParameter(parameters, contexts, "phone_number")
  IN IF ~inputContextsDeclared(h)
     THEN OuterCatch(h, fetchReady, env, << >>)    \* ReferenceError: inputContexts
     ELSE IF \/ ~Has(fullName, "full_name")
             \/ ~Has(emailId, "email")
             \/ ~Has(phoneNumber, "phone_number")
     THEN Say(h, fetchReady, env,
              ImMissing(Pushed(<< [absent |-> ~Has(fullName, "full_name"),
                                   field |-> "full name"],
                                  [absent |-> ~Has(emailId, "email"), field |-> "email"],
                                  [absent |-> ~Has(phoneNumber, "phone_number"),
                                   field |-> "phone number"] >>)),
              << Ctx("awaiting-contact-details", 2) >>, << >>)
     ELSE IF DraftUndefined(contexts)
     THEN OuterCatch(h, fetchReady, env, << >>)
     ELSE
       LET bag == Put(Put(Put(ParametersOrEmpty(contexts, "booking-flow"),
                              "full_name", fullName.full_name),
                          "email_id", emailId.email),
                      "phone_number", phoneNumber.phone_number)
       IN Say(h, fetchReady, env,
              IF Has(bag, "type") /\ bag.type = "group"
              THEN "group_summary" ELSE "table_summary",
              << CtxP("booking-flow", 5, bag), Ctx("awaiting-confirmation", 2) >>,
              << >>)

ContactDetails(h, fetchReady, parameters, contexts, env) ==
  IF h = "package"
  THEN CollectContactDetails(h, fetchReady, parameters, contexts, env)
  ELSE CaptureContactDetails(h, fetchReady, parameters, contexts, env)

\* (a variant that keeps the draft when the request before this one made
\* a call, whichever session it came from)
DenyRemembering(h, fetchReady, env) ==
  Say(h, fetchReady, env, "start_again_or_cancel",
      << Ctx("booking-flow", IF calls = << >> THEN 0 ELSE 2),
         Ctx("awaiting-confirmation", 0), Ctx("awaiting-restart-or-cancel", 2) >>,
      << >>)

(***************************************************************************)
(* Welcome, Deny, Restart, Cancel, Default Fallback ("steps", "unified").  *)
(***************************************************************************)
\* Welcome Intent and Restart Booking Intent: list the venues, ask the type.
\* getAvailableVenues() of "steps" rejects when the fetch fails.
WelcomeOrRestart(h, fetchReady, env, prompt) ==
  IF h = "steps" /\ env.venues = "fail"
  THEN OuterCatch(h, fetchReady, env, << VenueLookup(env, 0) >>)
  ELSE Literal(prompt, << Ctx("awaiting-booking-type", 5) >>, << VenueLookup(env, 0) >>)

\* (a variant that leaves the draft active after the user said no)
DenyKeepingFlow(h, fetchReady, env) ==
  Say(h, fetchReady, env, "start_again_or_cancel",
      << Ctx("booking-flow", 2), Ctx("awaiting-confirmation", 0),
         Ctx("awaiting-restart-or-cancel", 2) >>,
      << >>)

DenyBooking(h, fetchReady, env) ==
  Say(h, fetchReady, env, "start_again_or_cancel",
      << Ctx("booking-flow", 0), Ctx("awaiting-confirmation", 0),
         Ctx("awaiting-restart-or-cancel", 2) >>,
      << >>)

CancelBooking(h, fetchReady, env) ==
  Say(h, fetchReady, env, "cancelled",
      << Ctx("booking-flow", 0), Ctx("awaiting-restart-or-cancel", 0) >>,
      << >>)

DefaultFallback(h, fetchReady, contexts, env) ==
  IF ~inputContextsDeclared(h)
  THEN OuterCatch(h, fetchReady, env, << >>)        \* ReferenceError: inputContexts
  ELSE Say(h, fetchReady, env,
           IF HasContext(contexts, "booking-flow")
           THEN "did_not_understand_booking" ELSE "did_not_catch",
           << >>, << >>)

\* no block of the handler matched the intent
Unhandled(h, fetchReady, env) ==
  Say(h, fetchReady, env,
      IF h = "package" THEN "did_not_get_that" ELSE "not_sure_how_to_handle",
      << >>, << >>)

(***************************************************************************)
(* What a turn can carry.                                                  *)
(***************************************************************************)
\* {} and the one-key bags { k: v }
Opt(k, S) == {EmptyBag} \cup { k :> v : v \in S }

\* the bags made of one bag of A and one of B
Join(A, B) == { a @@ b : a \in A, b \in B }

\* platform timestamps: 19:00 written with "+04:00", 01:00 written with "-05:00"
Evening == [min |-> 19 * 60, sign |-> "+", off |-> DubaiOffset]
Dawn == [min |-> 60, sign |-> "-", off |-> 0 - 300]
\* a time of day that does not exist
NoSuchTime == [min |-> MinutesPerDay, sign |-> "+", off |-> DubaiOffset]

VenueNames == {"", ".", "Rooftop", "rooftop", "Cellar", "Nowhere"}

\* every guest count (or none) at 19:00 of day 0; then, for one guest count,
\* another day and notation, no date, neither date nor time; and nothing
BookingParams ==
  Join(Opt("guestCount", GuestCounts), {[bookingdate |-> 0, bookingtime |-> Evening]})
    \cup Join({[guestCount |-> CategoryLimit - 1]},
              { [bookingdate |-> MaxDay, bookingtime |-> Dawn],
                [bookingtime |-> Evening],
                EmptyBag })
    \cup {EmptyBag}

ModifyParams ==
  { EmptyBag,
    [newGuestCount |-> MaxGuestCount],
    [newDate |-> MaxDay, newTime |-> Evening] }

PackageContactParams ==
  { [person |-> "Asha"],
    [email |-> "asha@example.com"],
    "phone-number" :> "0501234567" @@ [person |-> "Asha", email |-> "asha@example.com"] }

ContactParams ==
  { EmptyBag,
    [full_name |-> "Asha"],
    [full_name |-> "Asha", phone_number |-> "0501234567", email |-> "asha@example.com"] }

\* what the collaborators do during one request when nothing fails
Calm ==
  [venues |-> "ok", store |-> "ok", mail |-> "ok", gemini |-> "ok", addons |-> "ok",
   tz |-> 0, today |-> 0]

Outcomes == {"ok", "fail"}
Replies == {"ok", "empty", "error"}
\* the server's UTC offset: UTC, or Dubai time
Zones == {0, DubaiOffset}

\* the instant of 19:00 Dubai time on day 0
EveningUTC == buildDubaiUTC(0, Evening.min)

\* booking-flow bags a caller may send instead of the ones last emitted
CallerDrafts ==
  { [type |-> "table"],
    [type |-> "vip", guestCount |-> 9],
    [venue |-> "Rooftop", venue_id |-> "recRooftop"],
    [type |-> "table", guestCount |-> 9, bookingDate |-> 0, bookingTime |-> Evening.min,
     bookingUTC |-> EveningUTC, venue |-> "Cellar", venue_id |-> "recCellar",
     full_name |-> "Asha", email_id |-> "asha@example.com",
     phone_number |-> "0501234567"],
    [type |-> "group", guestCount |-> 11, bookingDate |-> 0, bookingTime |-> Evening.min,
     bookingUTC |-> EveningUTC, venue |-> "Rooftop", venue_id |-> "recRooftop",
     full_name |-> "Asha", email_id |-> "asha@example.com",
     phone_number |-> "0501234567"],
    [type |-> "group", guestCount |-> 11, bookingUTC |-> EveningUTC,
     venue |-> "Rooftop", space_id |-> "recRooftop",
     full_name |-> "Asha", email_id |-> "asha@example.com",
     mobile_number |-> "0501234567", grand_total |-> 0,
     selected_add_ons |-> "Balloons"],
    [type |-> "table", guestCount |-> 9, bookingUTC |-> EveningUTC,
     venue |-> "Cellar", space_id |-> "recCellar",
     full_name |-> "Asha", email_id |-> "", mobile_number |-> ""] }

\* the contexts a caller may send: none, booking-flow without parameters,
\* booking-flow with one of the bags, and a draft next to a context that
\* still carries the venue_name or the number of an earlier turn
CallerStores ==
  {EmptyBag, "booking-flow" :> EmptyBag}
    \cup { "booking-flow" :> [parameters |-> d] : d \in CallerDrafts }
    \cup { ("booking-flow" :> [parameters |-> [type |-> "table", guestCount |-> 9,
                                                bookingUTC |-> EveningUTC,
                                                venue |-> "Cellar",
                                                venue_id |-> "recCellar"]])
           @@ ("awaiting-venue-selection" :> [parameters |-> [venue_name |-> "Cellar"]]),
         ("booking-flow" :> [parameters |-> [type |-> "table",
                                              guestCount |-> CategoryLimit - 1]])
           @@ ("awaiting-guest-count" :> [parameters |-> [number |-> MaxGuestCount]]),
         ("booking-flow" :> [parameters |-> [type |-> "table",
                                              guestCount |-> CategoryLimit - 1]])
           @@ ("awaiting-datetime" :> [parameters |-> [time |-> Evening]]) }

(***************************************************************************)
(* The state machine.                                                      *)
(***************************************************************************)
NoRequest == [intent |-> "", parameters |-> EmptyBag, contexts |-> << >>]
NoResponse == [status |-> 0, prompt |-> "", fulfillmentText |-> NoText,
               outputContexts |-> << >>]

\* no conversion under way
NoClock == [phase |-> "idle"]
NoProbe == [phase |-> "idle"]

Init ==
  /\ handler \in Handlers
  /\ fetch = FALSE
  /\ stored = EmptyBag
  /\ req = NoRequest
  /\ peer = EmptyBag
  /\ resp = NoResponse
  /\ calls = << >>
  /\ clock = NoClock
  /\ probe = NoProbe

\* import('node-fetch').then(mod => { fetch = mod.default })
ImportFetch ==
  /\ handler \in {"package", "unified"}
  /\ ~fetch
  /\ fetch' = TRUE
  /\ UNCHANGED <<handler, stored, req, resp, calls, clock, probe, peer>>

\* A caller that opens the session with contexts of its own, before its
\* first request.
NewCaller ==
  /\ req = NoRequest
  /\ stored' \in CallerStores
  /\ req' = NoRequest
  /\ resp' = NoResponse
  /\ calls' = << >>
  /\ UNCHANGED <<handler, fetch, clock, probe, peer>>

\* queryResult.outputContexts of the request being answered
Contexts == AsContexts(stored)

\* One request answered with r, the outcome of the block of the handler that
\* names the intent; after a 200 the platform applies the response's
\* outputContexts to the active contexts.
Turn(intent, parameters, env, r) ==
  /\ req' = [intent |-> intent, parameters |-> parameters, contexts |-> Contexts,
             env |-> env]
  /\ resp' = [status |-> r.status, prompt |-> r.prompt,
              fulfillmentText |-> r.fulfillmentText,
              outputContexts |-> r.outputContexts]
  /\ calls' = r.calls
  /\ stored' = IF r.status = 200 THEN Platform(stored, r.outputContexts) ELSE stored
  /\ UNCHANGED <<handler, fetch, clock, probe, peer>>

Welcome ==
  /\ handler \in {"steps", "unified"}
  /\ \E v \in Outcomes :
       LET env == [Calm EXCEPT !.venues = v]
       IN Turn("Welcome Intent", EmptyBag, env,
               WelcomeOrRestart(handler, fetch, env, "welcome"))

Booking ==
  /\ handler \in {"package", "unified"}
  /\ \E p \in BookingParams, v \in Outcomes :
       \E z \in (IF Has(p, "bookingtime") /\ p.bookingtime = Dawn THEN Zones ELSE {0}) :
         LET env == [Calm EXCEPT !.venues = v, !.tz = z]
         IN Turn("Booking Intent", p, env, BookingIntent(handler, fetch, p, env))

Modify ==
  /\ handler \in {"package", "unified"}
  /\ \E p \in ModifyParams, v \in Outcomes :
       LET env == [Calm EXCEPT !.venues = v]
       IN Turn("ModifyBookingIntent", p, env,
               ModifyBookingIntent(handler, fetch, p, Contexts, env))

AskVenue ==
  /\ handler \in {"package", "unified"}
  /\ \E p \in Opt("venue_name", {"Rooftop", "Nowhere"}), v \in Outcomes :
       LET env == [Calm EXCEPT !.venues = v]
       IN Turn("Ask Venue Details Intent", p, env,
               AskVenueDetails(handler, fetch, p, env))

BookingType ==
  /\ handler = "steps"
  /\ \E p \in Opt("booking_type", {"table", "group"}) :
       Turn("Select Booking Type Intent", p, Calm,
            SelectBookingType(handler, fetch, p, Contexts, Calm))

GuestCount ==
  /\ handler = "steps"
  /\ \E p \in Opt("number", GuestCounts \cup {0 - 1}) :
       Turn("Capture Guest Count Intent", p, Calm,
            CaptureGuestCount(handler, fetch, p, Contexts, Calm))

DateTime ==
  /\ handler = "steps"
  /\ \E p \in { [date |-> 0, time |-> Evening], [date |-> MaxDay, time |-> Dawn],
                [date |-> 0, time |-> NoSuchTime], [date |-> 0], [time |-> Evening] },
        v \in Outcomes :
       LET env == [Calm EXCEPT !.venues = v]
       IN Turn("Capture DateTime Intent", p, env,
               CaptureDateTime(handler, fetch, p, Contexts, env))

Venue ==
  /\ handler \in Handlers
  /\ \E p \in Opt("venue_name", VenueNames), v \in Outcomes :
       LET env == [Calm EXCEPT !.venues = v]
       IN Turn("Select Venue Intent", p, env,
               SelectVenue(handler, fetch, p, Contexts, env))

CollectContact ==
  /\ handler = "package"
  /\ \E p \in PackageContactParams :
       Turn("CollectContactDetails", p, Calm,
            ContactDetails(handler, fetch, p, Contexts, Calm))

CaptureContact ==
  /\ handler \in {"steps", "unified"}
  /\ \E p \in ContactParams :
       Turn("Capture Contact Details Intent", p, Calm,
            ContactDetails(handler, fetch, p, Contexts, Calm))

\* the add-on records are written by "package", the mail is sent by the others
Confirm ==
  /\ handler \in Handlers
  /\ \E s \in Outcomes, o \in Outcomes :
       LET env == IF handler = "package"
                  THEN [Calm EXCEPT !.store = s, !.addons = o]
                  ELSE [Calm EXCEPT !.store = s, !.mail = o]
       IN Turn("Confirm Booking Intent", EmptyBag, env,
               ConfirmBooking(handler, fetch, Contexts, env))

Deny ==
  /\ handler \in {"steps", "unified"}
  /\ Turn("Deny Booking Intent", EmptyBag, Calm, DenyBooking(handler, fetch, Calm))

Restart ==
  /\ handler \in {"steps", "unified"}
  /\ \E v \in Outcomes :
       LET env == [Calm EXCEPT !.venues = v]
       IN Turn("Restart Booking Intent", EmptyBag, env,
               WelcomeOrRestart(handler, fetch, env, "start_over"))

Cancel ==
  /\ handler \in {"steps", "unified"}
  /\ Turn("Cancel Booking Intent", EmptyBag, Calm, CancelBooking(handler, fetch, Calm))

Fallback ==
  /\ handler \in {"steps", "unified"}
  /\ \E g \in Replies :
       LET env == [Calm EXCEPT !.gemini = g]
       IN Turn("Default Fallback Intent", EmptyBag, env,
               DefaultFallback(handler, fetch, Contexts, env))

\* an intent that no block of the deployed handler names
Other ==
  /\ handler \in Handlers
  /\ \E g \in Replies :
       LET env == [Calm EXCEPT !.gemini = g]
       IN Turn("Small Talk", EmptyBag, env, Unhandled(handler, fetch, env))

\* A request body without queryResult: reading the intent name throws before
\* the try block of the handler is entered, in every revision; the promise
\* of the async handler rejects and no response is sent.
Malformed ==
  /\ handler \in Handlers
  /\ req' = Put(NoRequest, "body", "no queryResult")
  /\ resp' = NoResponse
  /\ calls' = << >>
  /\ UNCHANGED <<handler, fetch, stored, clock, probe, peer>>

\* A queryResult without an intent.  "steps" takes the intent to be
\* 'Default Fallback Intent'; the others read intent.displayName of undefined
\* before the try block: the async handler rejects and no response is sent.
NoIntent ==
  /\ handler \in Handlers
  /\ req' = Put([intent |-> "", parameters |-> EmptyBag, contexts |-> Contexts],
                "body", "no intent")
  /\ IF handler = "steps"
     THEN LET r == DefaultFallback(handler, fetch, Contexts, Calm)
          IN /\ resp' = [status |-> r.status, prompt |-> r.prompt,
                         fulfillmentText |-> r.fulfillmentText,
                         outputContexts |-> r.outputContexts]
             /\ calls' = r.calls
     ELSE /\ resp' = NoResponse
          /\ calls' = << >>
  /\ UNCHANGED <<handler, fetch, stored, clock, probe, peer>>

Next ==
  \/ ImportFetch
  \/ NewCaller
  \/ Welcome
  \/ Booking
  \/ Modify
  \/ AskVenue
  \/ BookingType
  \/ GuestCount
  \/ DateTime
  \/ Venue
  \/ CollectContact
  \/ CaptureContact
  \/ Confirm
  \/ Deny
  \/ Restart
  \/ Cancel
  \/ Fallback
  \/ Other
  \/ Malformed
  \/ NoIntent

Spec == Init /\ [][Next]_vars

\* The answer of revision h to one request: the block that names its intent,
\* the final fallback when no block of h names it.
Answer(h, fetchReady, request) ==
  LET intent == request.intent
      p == request.parameters
      c == request.contexts
      env == request.env
  IN CASE intent = "Welcome Intent" /\ h # "package" ->
            WelcomeOrRestart(h, fetchReady, env, "welcome")
       [] intent = "Restart Booking Intent" /\ h # "package" ->
            WelcomeOrRestart(h, fetchReady, env, "start_over")
       [] intent = "Booking Intent" /\ h # "steps" -> BookingIntent(h, fetchReady, p, env)
       [] intent = "ModifyBookingIntent" /\ h # "steps" ->
            ModifyBookingIntent(h, fetchReady, p, c, env)
       [] intent = "Ask Venue Details Intent" /\ h # "steps" ->
            AskVenueDetails(h, fetchReady, p, env)
       [] intent = "Select Booking Type Intent" /\ h = "steps" ->
            SelectBookingType(h, fetchReady, p, c, env)
       [] intent = "Capture Guest Count Intent" /\ h = "steps" ->
            CaptureGuestCount(h, fetchReady, p, c, env)
       [] intent = "Capture DateTime Intent" /\ h = "steps" ->
            CaptureDateTime(h, fetchReady, p, c, env)
       [] intent = "Select Venue Intent" -> SelectVenue(h, fetchReady, p, c, env)
       [] intent = "CollectContactDetails" /\ h = "package" ->
            ContactDetails(h, fetchReady, p, c, env)
       [] intent = "Capture Contact Details Intent" /\ h # "package" ->
            ContactDetails(h, fetchReady, p, c, env)
       [] intent = "Confirm Booking Intent" -> ConfirmBooking(h, fetchReady, c, env)
       [] intent = "Deny Booking Intent" /\ h # "package" -> DenyBooking(h, fetchReady, env)
       [] intent = "Cancel Booking Intent" /\ h # "package" ->
            CancelBooking(h, fetchReady, env)
       [] intent = "Default Fallback Intent" /\ h # "package" ->
            DefaultFallback(h, fetchReady, c, env)
       [] OTHER -> Unhandled(h, fetchReady, env)

(***************************************************************************)
(* Two sessions served by one process, their requests interleaved in any   *)
(* order.  The process keeps nothing of a request but fetch; the contexts  *)
(* of a session are kept by the platform (stored for "s1", peer for "s2")  *)
(* and come back with its next request.                                    *)
(***************************************************************************)
Sessions == {"s1", "s2"}

\* the contexts each session starts with
SessionStores ==
  { EmptyBag } \cup { "booking-flow" :> [parameters |-> d] :
                        d \in { c \in CallerDrafts : Has(c, "bookingUTC") } }

\* the requests a session sends
SessionRequests ==
  { [intent |-> "Confirm Booking Intent", parameters |-> EmptyBag, env |-> Calm],
    [intent |-> "Confirm Booking Intent", parameters |-> EmptyBag,
     env |-> [Calm EXCEPT !.store = "fail"]],
    [intent |-> "Deny Booking Intent", parameters |-> EmptyBag, env |-> Calm],
    [intent |-> "Select Venue Intent", parameters |-> [venue_name |-> "Rooftop"],
     env |-> Calm],
    [intent |-> "Small Talk", parameters |-> EmptyBag, env |-> Calm] }

SessionsInit ==
  /\ handler \in Handlers
  /\ fetch = FALSE
  /\ stored \in SessionStores
  /\ peer \in SessionStores
  /\ req = NoRequest
  /\ resp = NoResponse
  /\ calls = << >>
  /\ clock = NoClock
  /\ probe = NoProbe

\* One request of session sid, whose contexts the platform holds in store:
\* const session = dialogflowRequest.session; every emitted context is named
\* `${session}/contexts/<name>`.
Serve(sid, store, q) ==
  LET request == [intent |-> q.intent, parameters |-> q.parameters,
                  contexts |-> AsContexts(store), env |-> q.env, session |-> sid]
      r == Answer(handler, fetch, request)
  IN /\ req' = request
     /\ resp' = [status |-> r.status, prompt |-> r.prompt,
                 fulfillmentText |-> r.fulfillmentText,
                 outputContexts |-> r.outputContexts,
                 session |-> request.session]
     /\ calls' = r.calls
     /\ UNCHANGED <<handler, fetch, clock, probe>>

\* the store of a session after its request was answered
Served(store) == IF resp'.status = 200 THEN Platform(store, resp'.outputContexts)
                 ELSE store

FirstSession ==
  \E q \in SessionRequests :
    /\ Serve("s1", stored, q)
    /\ stored' = Served(stored)
    /\ peer' = peer

SecondSession ==
  \E q \in SessionRequests :
    /\ Serve("s2", peer, q)
    /\ peer' = Served(peer)
    /\ stored' = stored

SessionsNext ==
  \/ ImportFetch
  \/ FirstSession
  \/ SecondSession

SessionsSpec == SessionsInit /\ [][SessionsNext]_vars

(***************************************************************************)
(* The time functions on their own: a local date and time is converted to  *)
(* UTC by buildDubaiUTC and back by formatDubai ("package", "unified").    *)
(***************************************************************************)
\* the dates: a week and more from day 0, so that every weekday occurs
ClockDays == 0..(MaxDay + 6)

\* the times "HH:mm", as minutes: around midnight, the four hours that UTC
\* is behind, noon, and the evening
ClockTimes == {0, 1, 59, 4 * 60 - 1, 4 * 60, 11 * 60 + 59, 12 * 60, 12 * 60 + 1,
               13 * 60, 19 * 60, 23 * 60 + 59}

ClockInit ==
  /\ handler \in {"package", "unified"}
  /\ fetch = FALSE
  /\ stored = EmptyBag
  /\ req = NoRequest
  /\ peer = EmptyBag
  /\ resp = NoResponse
  /\ calls = << >>
  /\ clock \in { [phase |-> "given", date |-> d, time |-> t] :
                  d \in ClockDays, t \in ClockTimes }
  /\ probe = NoProbe

\* bookingUTC = buildDubaiUTC(date, time)
BuildUTC ==
  /\ clock.phase = "given"
  /\ clock' = Put(Put(clock, "phase", "built"),
                  "utc", buildDubaiUTC(clock.date, clock.time))
  /\ UNCHANGED <<handler, fetch, stored, req, resp, calls, probe, peer>>

\* const { date, time, local_datetime } = formatDubai(bookingUTC)
FormatUTC ==
  /\ clock.phase = "built"
  /\ clock' = Put(Put(clock, "phase", "formatted"), "shown", formatDubai(clock.utc))
  /\ UNCHANGED <<handler, fetch, stored, req, resp, calls, probe, peer>>

ClockNext ==
  \/ BuildUTC
  \/ FormatUTC

ClockSpec == ClockInit /\ [][ClockNext]_vars

(***************************************************************************)
(* getAvailableVenues on its own: over any Venues table of up to           *)
(* MaxRecords records, with any threshold, with and without a working      *)
(* record store.                                                           *)
(***************************************************************************)
\* records of the Venues table; the store omits empty fields
RecordShapes ==
  { [id |-> "recRooftop", space_name |-> "Rooftop", standing_capacity |-> 40],
    [id |-> "recCellar", space_name |-> "Cellar", standing_capacity |-> 9],
    [id |-> "recLoft", space_name |-> "Loft"],
    [id |-> "recHall", standing_capacity |-> 40],
    [id |-> "recNew"] }

Tables == UNION { [1..n -> RecordShapes] : n \in 0..MaxRecords }

\* no threshold, and the capacities of the records and their neighbours
Thresholds == {0, 9, 10, 39, 40, 41}

LookupInit ==
  /\ handler \in Handlers
  /\ fetch = FALSE
  /\ stored = EmptyBag
  /\ req = NoRequest
  /\ peer = EmptyBag
  /\ resp = NoResponse
  /\ calls = << >>
  /\ clock = NoClock
  /\ probe \in { [phase |-> "asked", records |-> t, guestCount |-> m, fetched |-> f] :
                  t \in Tables, m \in Thresholds, f \in BOOLEAN }

\* const venues = await getAvailableVenues(guestCount)
Lookup ==
  /\ probe.phase = "asked"
  /\ LET r == fetchVenues(handler, probe.records, probe.guestCount, probe.fetched)
     IN probe' = Put(Put(Put(probe, "phase", "answered"), "threw", r.threw),
                     "venues", r.venues)
  /\ UNCHANGED <<handler, fetch, stored, req, resp, calls, clock, peer>>

LookupNext == Lookup

LookupSpec == LookupInit /\ [][LookupNext]_vars

(***************************************************************************)
(* generateGeminiReply on its own ("package", "unified"): with and without *)
(* fetch, over what the remote service may answer.                         *)
(***************************************************************************)
\* bodies of the remote answer: an error object, no candidate, a candidate
\* without content, without parts, without text, with an empty text, with text
Bodies ==
  LET part(p) == [candidates |-> << [content |-> [parts |-> p]] >>]
  IN { [error |-> "quota"],
       [candidates |-> << >>],
       [candidates |-> << EmptyBag >>],
       [candidates |-> << [content |-> EmptyBag] >>],
       part(<< >>),
       part(<< EmptyBag >>),
       part(<< [text |-> ""] >>),
       part(<< [text |-> "Of course! How many guests?"] >>),
       part(<< [text |-> "Lovely."], [text |-> "Second part."] >>) }

Remotes ==
  {[kind |-> "rejects"], [kind |-> "text"]}
    \cup { [kind |-> "json", data |-> d] : d \in Bodies }

Prompts == {"", "technical_issue", "ask_venue"}

GeminiInit ==
  /\ handler \in {"package", "unified"}
  /\ fetch \in BOOLEAN
  /\ stored = EmptyBag
  /\ req = NoRequest
  /\ peer = EmptyBag
  /\ resp = NoResponse
  /\ calls = << >>
  /\ clock = NoClock
  /\ probe \in { [phase |-> "prompted", prompt |-> p, remote |-> r] :
                  p \in Prompts, r \in Remotes }

\* fulfillmentText: await generateGeminiReply(prompt)
Reply ==
  /\ probe.phase = "prompted"
  /\ LET r == askGemini(fetch, probe.remote)
     IN probe' = Put(Put(Put(Put(probe, "phase", "replied"), "threw", r.threw),
                         "reply", r.reply), "posts", r.posts)
  /\ UNCHANGED <<handler, fetch, stored, req, resp, calls, clock, peer>>

GeminiNext == Reply

GeminiSpec == GeminiInit /\ [][GeminiNext]_vars

(***************************************************************************)
(* sendEmailWithPdf on its own ("steps"): under every configuration, for   *)
(* some recipients, with a mail server that takes or refuses the message.  *)
(***************************************************************************)
MailConfigs == [EMAIL_SERVICE_HOST : BOOLEAN, EMAIL_SERVICE_USER : BOOLEAN,
                PDF_URL : BOOLEAN]

Recipients == {"", "asha@example.com", "not an address"}

MailInit ==
  /\ handler = "steps"
  /\ fetch = FALSE
  /\ stored = EmptyBag
  /\ req = NoRequest
  /\ peer = EmptyBag
  /\ resp = NoResponse
  /\ calls = << >>
  /\ clock = NoClock
  /\ probe \in { [phase |-> "composed", config |-> c, toEmail |-> t, accepts |-> a,
                   customerName |-> n] :
                  c \in MailConfigs, t \in Recipients, a \in BOOLEAN,
                  n \in {"", "Asha"} }

\* const emailSent = await sendEmailWithPdf(toEmail, customerName)
Mail ==
  /\ probe.phase = "composed"
  /\ LET r == mailPdf(probe.config, probe.toEmail, probe.accepts)
     IN probe' = Put(Put(Put(Put(Put(probe, "phase", "mailed"), "threw", r.threw),
                             "handed", r.handed), "href", r.href), "sent", r.sent)
  /\ UNCHANGED <<handler, fetch, stored, req, resp, calls, clock, peer>>

MailNext == Mail

MailSpec == MailInit /\ [][MailNext]_vars

(***************************************************************************)
(* Two deliveries of Confirm Booking Intent to one session.  The platform  *)
(* puts the session's active contexts into each request it sends; the      *)
(* handler reads the draft from the request alone, awaits createBooking,   *)
(* and answers; the platform applies the answer's outputContexts when it   *)
(* arrives.  The handler keeps nothing between requests but fetch.         *)
(***************************************************************************)
Deliveries == {"first", "second"}

\* the drafts a session has when the confirmation is asked for
ConfirmableStores ==
  { "booking-flow" :> [parameters |-> d] :
      d \in { c \in CallerDrafts : Has(c, "full_name") } }

NotSent == [at |-> "idle"]

RaceInit ==
  /\ handler \in Handlers
  /\ fetch = FALSE
  /\ stored \in ConfirmableStores
  /\ peer = EmptyBag
  /\ req = NoRequest
  /\ resp = NoResponse
  /\ calls = << >>
  /\ clock = NoClock
  /\ probe = [phase |-> "race", first |-> NotSent, second |-> NotSent]

\* The platform sends a Confirm Booking Intent request with the contexts the
\* session has now: queryResult.outputContexts.
SendConfirm(k) ==
  /\ probe.phase = "race"
  /\ probe[k].at = "idle"
  /\ \E o \in Outcomes :
       probe' = Put(probe, k,
                    [at |-> "sent",
                     request |-> [intent |-> "Confirm Booking Intent",
                                  parameters |-> EmptyBag,
                                  contexts |-> AsContexts(stored),
                                  env |-> [Calm EXCEPT !.store = o]]])
  /\ UNCHANGED <<handler, fetch, stored, req, resp, calls, clock, peer>>

\* The handler runs on the request: findContext("booking-flow", inputContexts),
\* createBooking(bookingDetails, status), the reply; the calls it makes are
\* added to those already made for the session.
HandleConfirm(k) ==
  /\ probe.phase = "race"
  /\ probe[k].at = "sent"
  /\ LET r == Answer(handler, fetch, probe[k].request)
     IN /\ calls' = calls \o r.calls
        /\ probe' = Put(probe, k, [at |-> "handled", request |-> probe[k].request,
                                   status |-> r.status, prompt |-> r.prompt,
                                   fulfillmentText |-> r.fulfillmentText,
                                   outputContexts |-> r.outputContexts])
  /\ UNCHANGED <<handler, fetch, stored, req, resp, clock, peer>>

\* res.json(...) reaches the platform, which applies the outputContexts.
AnswerConfirm(k) ==
  /\ probe.phase = "race"
  /\ probe[k].at = "handled"
  /\ req' = probe[k].request
  /\ resp' = [status |-> probe[k].status, prompt |-> probe[k].prompt,
              fulfillmentText |-> probe[k].fulfillmentText,
              outputContexts |-> probe[k].outputContexts]
  /\ stored' = IF probe[k].status = 200
               THEN Platform(stored, probe[k].outputContexts)
               ELSE stored
  /\ probe' = Put(probe, k, [at |-> "answered", request |-> probe[k].request])
  /\ UNCHANGED <<handler, fetch, calls, clock, peer>>

RaceNext ==
  \/ ImportFetch
  \/ \E k \in Deliveries : SendConfirm(k)
  \/ \E k \in Deliveries : HandleConfirm(k)
  \/ \E k \in Deliveries : AnswerConfirm(k)

RaceSpec == RaceInit /\ [][RaceNext]_vars

(***************************************************************************)
(* A cooperative conversation with "steps": the caller sends the six       *)
(* intents of the flow in order, each with the values it asks for, and     *)
(* sends the next one when the last was answered; every external call      *)
(* succeeds and the platform returns the contexts last emitted.            *)
(***************************************************************************)
Script ==
  << "Select Booking Type Intent", "Capture Guest Count Intent",
     "Capture DateTime Intent", "Select Venue Intent",
     "Capture Contact Details Intent", "Confirm Booking Intent" >>

\* the parameters a cooperative caller gives at step i of the script
Cooperative(i) ==
  CASE i = 1 -> { [booking_type |-> t] : t \in {"table", "group"} }
    [] i = 2 -> { [number |-> g] : g \in {1} \cup ((CategoryLimit - 1)..MaxGuestCount) }
    [] i = 3 -> { [date |-> d, time |-> t] : d \in 0..MaxDay, t \in {Evening, Dawn} }
    [] i = 4 -> { [venue_name |-> n] : n \in {"Rooftop", "rooftop", "Cellar"} }
    [] i = 5 -> { [full_name |-> "Asha", phone_number |-> "0501234567",
                   email |-> "asha@example.com"] }
    [] OTHER -> { EmptyBag }

TalkInit ==
  /\ handler = "steps"
  /\ fetch = FALSE
  /\ stored = EmptyBag
  /\ peer = EmptyBag
  /\ req = NoRequest
  /\ resp = NoResponse
  /\ calls = << >>
  /\ clock = NoClock
  /\ probe = [phase |-> "talk", step |-> 0, supplied |-> EmptyBag]

\* Step i of the script: the request, the handler's answer, the contexts the
\* platform keeps.  The calls of the whole conversation are collected.
Tell(i) ==
  /\ probe.phase = "talk"
  /\ probe.step = i - 1
  /\ i > 1 => resp.status = 200
  /\ \E p \in Cooperative(i) :
       LET request == [intent |-> Script[i], parameters |-> p,
                       contexts |-> AsContexts(stored), env |-> Calm]
           r == Answer(handler, fetch, request)
       IN /\ req' = request
          /\ resp' = [status |-> r.status, prompt |-> r.prompt,
                      fulfillmentText |-> r.fulfillmentText,
                      outputContexts |-> r.outputContexts]
          /\ calls' = calls \o r.calls
          /\ stored' = IF r.status = 200 THEN Platform(stored, r.outputContexts)
                       ELSE stored
          /\ probe' = [phase |-> "talk", step |-> i, supplied |-> p @@ probe.supplied]
  /\ UNCHANGED <<handler, fetch, clock, peer>>

TalkNext == \E i \in 1..Len(Script) : Tell(i)

\* the caller keeps talking and the handler answers every request it was sent
TalkSpec == TalkInit /\ [][TalkNext]_vars /\ WF_vars(TalkNext)

(***************************************************************************)
(* ModifyBookingIntent on its own ("package", "unified"): a caller with a  *)
(* draft changes the guest count, the date, the time, or any of them.      *)
(***************************************************************************)
\* every choice of newGuestCount, newDate and newTime; 0 guests is no change
ChangeParams ==
  Join(Join(Opt("newGuestCount", {0, MaxGuestCount}),
            Opt("newDate", {0, MaxDay})),
       Opt("newTime", {Evening, Dawn}))

Change ==
  /\ handler \in {"package", "unified"}
  /\ \E p \in ChangeParams, v \in Outcomes :
       LET env == [Calm EXCEPT !.venues = v]
       IN Turn("ModifyBookingIntent", p, env,
               ModifyBookingIntent(handler, fetch, p, Contexts, env))

ChangeNext ==
  \/ ImportFetch
  \/ NewCaller
  \/ Change

ChangeSpec == Init /\ [][ChangeNext]_vars

(***************************************************************************)
(* Select Venue Intent of "unified" on its own: one request with a         *)
(* venue_name of any shape, any prior contexts, any outcome of the venue   *)
(* fetch and of the reply generator.                                       *)
(***************************************************************************)
VenueShapes ==
  { [kind |-> "missing"] }
    \cup { [kind |-> "string", value |-> n] : n \in VenueNames }
    \cup { [kind |-> "array", value |-> a] :
             a \in { << >>, <<"Cellar">>, <<"Nowhere", "Rooftop">> } }
    \cup { [kind |-> "number", value |-> n] : n \in {0, 5} }

VenueInit ==
  /\ handler = "unified"
  /\ fetch = FALSE
  /\ stored \in CallerStores
  /\ peer = EmptyBag
  /\ req = NoRequest
  /\ resp = NoResponse
  /\ calls = << >>
  /\ clock = NoClock
  /\ probe = NoProbe

\* the request: its shape is kept in probe, its contexts and env in req
ChooseVenue ==
  /\ req = NoRequest
  /\ \E shape \in VenueShapes, v \in Outcomes, g \in Replies :
       LET env == [Calm EXCEPT !.venues = v, !.gemini = g]
           r == SelectVenueShaped(handler, fetch, shape, Contexts, env)
       IN /\ req' = [intent |-> "Select Venue Intent", parameters |-> EmptyBag,
                     contexts |-> Contexts, env |-> env]
          /\ probe' = [phase |-> "venue chosen", shape |-> shape]
          /\ resp' = [status |-> r.status, prompt |-> r.prompt,
                      fulfillmentText |-> r.fulfillmentText,
                      outputContexts |-> r.outputContexts]
          /\ calls' = r.calls
          /\ stored' = IF r.status = 200 THEN Platform(stored, r.outputContexts)
                       ELSE stored
  /\ UNCHANGED <<handler, fetch, clock, peer>>

VenueNext ==
  \/ ImportFetch
  \/ ChooseVenue

VenueSpec == VenueInit /\ [][VenueNext]_vars

(***************************************************************************)
(* What the properties read of a state: the request last answered, its     *)
(* response and the calls made while answering it.                         *)
(***************************************************************************)
Confirming == req.intent = "Confirm Booking Intent"

\* the booking-flow bag that came with the request ({} when none came)
Draft == ParametersOrEmpty(req.contexts, "booking-flow")

DraftType == IF Has(Draft, "type") THEN Draft.type ELSE ""

\* the response emits a context of that name
Emits(name) == HasContext(resp.outputContexts, name)

\* the response emits booking-flow with a bag
EmitsFlowBag ==
  /\ Emits("booking-flow")
  /\ Has(LastEmitted(resp.outputContexts, "booking-flow"), "parameters")

FlowBag == LastEmitted(resp.outputContexts, "booking-flow").parameters

\* the positions in calls of the calls of one operation
CallsOf(op) == { i \in 1..Len(calls) : calls[i].op = op }

\* the createBooking calls that submitted a record, and those that the
\* record store accepted
Writes == { i \in CallsOf("createBooking") : calls[i].posted }
GoodWrites == { i \in CallsOf("createBooking") : calls[i].ok }

(***************************************************************************)
(* C1.  Booking Intent: the type is table iff the guest count is below 10. *)
(***************************************************************************)
\* C1: whenever Booking Intent answers a request that gives a guest count g,
\* the booking-flow context it emits has type "table" if g < 10 and "group"
\* otherwise; in particular g = 10 gives "group".
C1_TypeFollowsGuestCount ==
  (/\ req.intent = "Booking Intent"
   /\ Has(req.parameters, "guestCount")
   /\ EmitsFlowBag)
    => /\ Has(FlowBag, "type")
       /\ FlowBag.type = IF req.parameters.guestCount < CategoryLimit
                         THEN "table" ELSE "group"

(***************************************************************************)
(* C2.  Confirm Booking Intent without a booking-flow context is refused.  *)
(***************************************************************************)
\* C2: in every revision, a Confirm Booking Intent request whose contexts
\* hold no booking-flow context calls neither createBooking nor the mailer
\* and is answered 200 with the "lost your booking details, start over"
\* re-prompt.
C2_ConfirmWithoutDraftRefused ==
  (Confirming /\ ~HasContext(req.contexts, "booking-flow"))
    => /\ CallsOf("createBooking") = {}
       /\ CallsOf("sendEmailWithPdf") = {}
       /\ resp.status = 200
       /\ resp.prompt = "lost_details"

(***************************************************************************)
(* C3.  Confirm Booking Intent writes complete drafts only.                *)
(***************************************************************************)
\* the draft holds a non-empty value for each of guest count, bookingUTC,
\* venue, full name, mobile number and email
Complete(details) ==
  /\ Truthy(details, "guestCount")
  /\ Has(details, "bookingUTC")
  /\ Truthy(details, "venue")
  /\ Truthy(details, "full_name")
  /\ Truthy(details, "mobile_number") \/ Truthy(details, "phone_number")
  /\ Truthy(details, "email_id")

\* C3: every createBooking call made by Confirm Booking Intent is given a
\* draft in which guest count, bookingUTC, venue, full name, mobile number
\* and email are all present and non-empty.
C3_OnlyCompleteDraftsWritten ==
  Confirming => \A i \in CallsOf("createBooking") : Complete(calls[i].details)

(***************************************************************************)
(* C4.  A record is written at most once per draft.                        *)
(***************************************************************************)
\* the calls that write to the record store
RecordWrites == Writes \cup CallsOf("createBookingAddons")

NoRecordWrite == RecordWrites = {}

\* C4: when the request last answered was a Confirm Booking Intent whose
\* createBooking succeeded and the next request is a Confirm Booking Intent
\* on the contexts the platform kept of that answer, the next request makes
\* no record-store write.
C4_WrittenOncePerDraft ==
  [][(Confirming /\ GoodWrites # {} /\ Confirm) => NoRecordWrite']_vars

\* a second Confirm Booking Intent of "steps" that came with the terminal
\* marker of the first and wrote nothing
C4_SecondConfirmReached ==
  /\ handler = "steps"
  /\ Confirming
  /\ \E m \in TerminalMarkers : HasContext(req.contexts, m)
  /\ NoRecordWrite

(***************************************************************************)
(* C5.  Status by type, in the revisions that pass a status.               *)
(***************************************************************************)
\* C5: in "steps" and "unified", every record Confirm Booking Intent
\* submits has status Confirmed and a draft of type table, or status
\* New Lead and a draft of type group; for a draft of any other type
\* createBooking is not called.
C5_StatusByType ==
  (handler \in {"steps", "unified"} /\ Confirming)
    => /\ \A i \in CallsOf("createBooking") :
            \/ DraftType = "table" /\ calls[i].fields.status = "Confirmed"
            \/ DraftType = "group" /\ calls[i].fields.status = "New Lead"
       /\ DraftType \notin {"table", "group"} => CallsOf("createBooking") = {}

\* a group draft submitted as a New Lead
C5_NewLeadWritten ==
  /\ handler = "steps"
  /\ Confirming
  /\ DraftType = "group"
  /\ \E i \in Writes : calls[i].fields.status = "New Lead"

(***************************************************************************)
(* C6.  Group inquiry: the write succeeds, the mail fails.                 *)
(***************************************************************************)
\* the mail was attempted and rejected
MailFailed == \E i \in CallsOf("sendEmailWithPdf") : ~calls[i].ok

\* the response expires booking-flow
ZeroesFlow ==
  /\ Emits("booking-flow")
  /\ LastEmitted(resp.outputContexts, "booking-flow").lifespanCount = 0

\* C6: when Confirm Booking Intent on a group draft wrote the record and
\* the mail was rejected, the answer is 200, says the inquiry was received
\* and the email could not be sent, and expires booking-flow.
C6_MailFailureStillReceived ==
  (Confirming /\ DraftType = "group" /\ GoodWrites # {} /\ MailFailed)
    => /\ resp.status = 200
       /\ resp.prompt = "group_received_email_trouble"
       /\ ZeroesFlow

\* a group inquiry written whose mail was rejected
C6_MailFailureReached ==
  Confirming /\ DraftType = "group" /\ GoodWrites # {} /\ MailFailed

(***************************************************************************)
(* C7.  The mail is sent for group inquiries only, after the write.        *)
(***************************************************************************)
\* C7: every call of sendEmailWithPdf is made while answering a Confirm
\* Booking Intent whose draft has type group, after a createBooking call of
\* the same request that succeeded.
C7_MailOnlyAfterGroupWrite ==
  \A i \in CallsOf("sendEmailWithPdf") :
    /\ Confirming
    /\ DraftType = "group"
    /\ \E j \in GoodWrites : j < i

\* a mail sent
C7_MailSent ==
  \E i \in CallsOf("sendEmailWithPdf") : calls[i].ok

(***************************************************************************)
(* C8.  A failed write leaves the draft for a retry.                       *)
(***************************************************************************)
\* a createBooking call that did not return a record
WriteFailed == \E i \in CallsOf("createBooking") : ~calls[i].ok

\* C8: when createBooking fails during Confirm Booking Intent, createBooking
\* was called once, no mail is sent, the answer is 200 with an apology and
\* booking-flow is emitted with a positive lifespan.
C8_FailedWriteKeepsDraft ==
  (Confirming /\ WriteFailed)
    => /\ Cardinality(CallsOf("createBooking")) = 1
       /\ CallsOf("sendEmailWithPdf") = {}
       /\ resp.status = 200
       /\ resp.prompt \in {"table_issue", "group_issue", "finalize_issue"}
       /\ Emits("booking-flow")
       /\ LastEmitted(resp.outputContexts, "booking-flow").lifespanCount > 0

(***************************************************************************)
(* C9.  Selecting the recorded venue again.                                *)
(***************************************************************************)
\* the turn names the venue the draft records, or names none
SameVenueAgain ==
  /\ req.intent = "Select Venue Intent"
  /\ Truthy(Draft, "venue")
  /\ \/ ~Truthy(req.parameters, "venue_name")
     \/ req.parameters.venue_name = Draft.venue

\* C9: in "steps" and "unified", a Select Venue Intent turn that names the
\* venue the draft already records, or gives no name while the draft records
\* one, is answered 200, not with a venue re-prompt; the answer emits
\* awaiting-contact-details and a booking-flow bag with the recorded venue.
C9_SameVenueProceeds ==
  (handler \in {"steps", "unified"} /\ SameVenueAgain)
    => /\ resp.status = 200
       /\ resp.prompt \notin {"venue_reprompt", "venue_not_found"}
       /\ Emits("awaiting-contact-details")
       /\ EmitsFlowBag
       /\ Has(FlowBag, "venue")
       /\ FlowBag.venue = Draft.venue

(***************************************************************************)
(* C10.  Contact details are merged, never blanked.                        *)
(***************************************************************************)
ContactKeys == {"full_name", "mobile_number", "phone_number", "email_id"}

\* C10: when a contact-details turn (CollectContactDetails in "package",
\* Capture Contact Details Intent in the others) emits a booking-flow bag,
\* every contact field that the draft of the request held non-empty is
\* non-empty in that bag.
C10_ContactNeverBlanked ==
  (/\ req.intent \in {"CollectContactDetails", "Capture Contact Details Intent"}
   /\ EmitsFlowBag)
    => \A k \in ContactKeys : Truthy(Draft, k) => Truthy(FlowBag, k)

(***************************************************************************)
(* C11.  Capture Guest Count Intent: a count of 0 or less is refused.      *)
(***************************************************************************)
\* C11: whenever Capture Guest Count Intent answers a turn whose number is 0
\* or negative, the answer is the valid-guest-count re-prompt and emits no
\* booking-flow context, whatever the contexts of the request hold.
C11_BadCountRefused ==
  (/\ req.intent = "Capture Guest Count Intent"
   /\ Has(req.parameters, "number")
   /\ req.parameters.number <= 0)
    => /\ resp.status = 200
       /\ resp.prompt = "valid_guest_count"
       /\ ~Emits("booking-flow")

(***************************************************************************)
(* C12.  The outer boundary answers every exception with a fixed 500.      *)
(***************************************************************************)
\* the request last answered did not get a 200: an exception left the
\* block of its intent, or was raised before any block was entered
Threw == req # NoRequest /\ resp.status # 200

\* C12: in every revision, a request whose processing raised an exception
\* is answered HTTP 500 with a fixed apology text, one that no external
\* call produces.
C12_FixedApology ==
  Threw => /\ resp.status = 500
           /\ resp.fulfillmentText.kind = "literal"

(***************************************************************************)
(* C13.  "unified": handled intents are answered 200.                      *)
(***************************************************************************)
\* the intents that the handler of src/unnamed/part_000 names
UnifiedIntents ==
  {"Welcome Intent", "Booking Intent", "ModifyBookingIntent",
   "Ask Venue Details Intent", "Select Venue Intent",
   "Capture Contact Details Intent", "Confirm Booking Intent",
   "Deny Booking Intent", "Restart Booking Intent", "Cancel Booking Intent",
   "Default Fallback Intent"}

\* the request had a queryResult, and a Booking Intent came with its time
WellFormed ==
  /\ ~Has(req, "body")
  /\ req.intent = "Booking Intent" => Has(req.parameters, "bookingtime")

\* every external call made while answering succeeded
AllCallsOk == \A i \in 1..Len(calls) : calls[i].ok

\* C13: in "unified", a well-formed request that names an intent of the
\* handler and whose external calls all succeed is answered HTTP 200.
C13_HandledAnswered200 ==
  (/\ handler = "unified"
   /\ req.intent \in UnifiedIntents
   /\ WellFormed
   /\ AllCallsOk)
    => resp.status = 200

(***************************************************************************)
(* C14.  Booking Intent asks for what the turn did not give.               *)
(***************************************************************************)
\* which of guest count, date and time the turn gave
Given == {"guestCount", "bookingdate", "bookingtime"} \cap DOMAIN req.parameters

\* C14: Booking Intent with none of guest count, date and time is answered
\* 200 with awaiting-guest-count; with date and time only it stores them
\* and emits awaiting-guest-count; with the guest count only it stores it
\* with the inferred type and emits awaiting-datetime.
C14_BookingAsksForMissing ==
  req.intent = "Booking Intent" =>
    /\ Given = {}
         => resp.status = 200 /\ Emits("awaiting-guest-count")
    /\ Given = {"bookingdate", "bookingtime"}
         => /\ resp.status = 200
            /\ Emits("awaiting-guest-count")
            /\ EmitsFlowBag
            /\ Has(FlowBag, "bookingUTC")
    /\ Given = {"guestCount"}
         => /\ resp.status = 200
            /\ Emits("awaiting-datetime")
            /\ EmitsFlowBag
            /\ Has(FlowBag, "guestCount")
            /\ FlowBag.guestCount = req.parameters.guestCount
            /\ Has(FlowBag, "type")

(***************************************************************************)
(* C15.  The literal HH:mm of a timestamp is the Dubai wall-clock time.    *)
(***************************************************************************)
\* the instant of wall-clock minute m of day d in Dubai: four hours earlier
\* in UTC
DubaiInstant(d, m) == d * MinutesPerDay + m - DubaiOffset

\* C15: when Booking Intent (ModifyBookingIntent) is given a date and a
\* timestamp <date>T<HH:mm:ss><offset>, with any offset, the bookingUTC it
\* emits is the instant of the literal HH:mm on that date in Dubai.
C15_LiteralTimeKept ==
  /\ (/\ req.intent = "Booking Intent"
      /\ Has(req.parameters, "bookingdate")
      /\ Has(req.parameters, "bookingtime")
      /\ EmitsFlowBag)
       => /\ Has(FlowBag, "bookingUTC")
          /\ FlowBag.bookingUTC = DubaiInstant(req.parameters.bookingdate,
                                               req.parameters.bookingtime.min)
  /\ (/\ req.intent = "ModifyBookingIntent"
      /\ Has(req.parameters, "newDate")
      /\ Has(req.parameters, "newTime")
      /\ EmitsFlowBag)
       => /\ Has(FlowBag, "bookingUTC")
          /\ FlowBag.bookingUTC = DubaiInstant(req.parameters.newDate,
                                               req.parameters.newTime.min)

(***************************************************************************)
(* C16.  formatDubai inverts buildDubaiUTC.                                *)
(***************************************************************************)
\* C16: for every local date d and time t, formatDubai(buildDubaiUTC(d, t))
\* has local_datetime "d t:00", the weekday and day of the month of d, and
\* the 12-hour notation of t.
C16_FormatInvertsBuild ==
  clock.phase = "formatted" =>
    LET HH == clock.time \div 60
        mm == clock.time % 60
    IN /\ clock.shown.local_datetime =
            [day |-> clock.date, HH |-> HH, mm |-> mm, ss |-> 0]
       /\ clock.shown.date.dddd = Weekdays[(clock.date % 7) + 1]
       /\ clock.shown.date.DMMMM = DayOfMonth(clock.date)
       /\ clock.shown.time.mm = mm
       /\ clock.shown.time.A = (IF HH >= 12 THEN "PM" ELSE "AM")
       /\ clock.shown.time.h =
            (IF HH = 0 THEN 12 ELSE IF HH > 12 THEN HH - 12 ELSE HH)

\* 2025-07-05 19:00 shown as "Saturday, 5 July" and "7:00 PM"
C16_SaturdayEvening ==
  /\ clock.phase = "formatted"
  /\ clock.date = 0
  /\ clock.time = 19 * 60
  /\ clock.shown.date = [dddd |-> "Saturday", DMMMM |-> [D |-> 5, month |-> "July"]]
  /\ clock.shown.time = [h |-> 7, mm |-> 0, A |-> "PM"]

(***************************************************************************)
(* C17.  A response that asks for more input keeps booking-flow alive.     *)
(***************************************************************************)
\* the answers that ask for the next step of a booking
NextStepPrompts ==
  {"offer_venues", "what_to_change", "updated_booking", "ask_contact_details",
   "ask_add_ons", "ask_package_type", "ask_guest_count_table",
   "ask_guest_count_group", "ask_date_time", "ask_venue", "confirm_summary",
   "table_summary", "group_summary"}

\* the non-empty lists of missing fields, in the order the handler tests them
MissingNames(fields) ==
  { SelectSeq(fields, LAMBDA f : f \in S) :
      S \in (SUBSET { fields[i] : i \in 1..Len(fields) }) \ {{}} }

\* the answers that ask again after invalid, missing or unmatched input
RePrompts ==
  {"valid_guest_count", "need_date_and_time", "bad_date_or_time",
   "venue_reprompt", "venue_not_found", "venue_name_missing",
   "need_booking_details", "unknown_booking_type"}
    \cup { StillNeed(m) : m \in MissingNames(<< "full name", "mobile number", "email address" >>) }
    \cup { ImMissing(m) : m \in MissingNames(<< "full name", "email", "phone number" >>) }

\* C17: every HTTP 200 response that asks for further booking input (a
\* next-step prompt or a re-prompt) emits the booking-flow context with a
\* lifespanCount greater than 0.
C17_AskingKeepsFlow ==
  (resp.status = 200 /\ resp.prompt \in NextStepPrompts \cup RePrompts)
    => /\ Emits("booking-flow")
       /\ LastEmitted(resp.outputContexts, "booking-flow").lifespanCount > 0

(***************************************************************************)
(* C18.  The draft is carried forward.                                     *)
(***************************************************************************)
\* the draft fields that the block of an intent captures
Captured(intent) ==
  CASE intent = "Booking Intent" -> {"guestCount", "bookingUTC", "type"}
    [] intent = "ModifyBookingIntent" -> {"guestCount", "bookingUTC"}
    [] intent \in {"Ask Venue Details Intent", "Select Venue Intent"} ->
         {"venue", "venue_id", "space_id"}
    [] intent = "Select Booking Type Intent" -> {"type"}
    [] intent = "Capture Guest Count Intent" -> {"guestCount"}
    [] intent = "Capture DateTime Intent" -> {"bookingDate", "bookingTime", "bookingUTC"}
    [] intent \in {"CollectContactDetails", "Capture Contact Details Intent"} ->
         ContactKeys
    [] OTHER -> {}

\* C18: whenever a response emits booking-flow with a positive lifespan and
\* a bag, every field of the booking-flow bag of the request, other than
\* those the intent captures, is in the emitted bag with the same value.
C18_DraftCarried ==
  (/\ EmitsFlowBag
   /\ LastEmitted(resp.outputContexts, "booking-flow").lifespanCount > 0)
    => \A k \in (DOMAIN Draft) \ Captured(req.intent) :
         Has(FlowBag, k) /\ FlowBag[k] = Draft[k]

(***************************************************************************)
(* C19.  A completed terminal intent ends the draft.                       *)
(***************************************************************************)
\* Confirm Booking Intent whose record write succeeded
ConfirmSucceeded == Confirming /\ GoodWrites # {}

\* the response expires the context that awaited the confirmation
ZeroesAwaitingConfirmation ==
  \E n \in {"awaiting-confirmation", "awaiting-final-confirmation"} :
    /\ Emits(n)
    /\ LastEmitted(resp.outputContexts, n).lifespanCount = 0

ZeroesEveryContext ==
  \A i \in 1..Len(req.contexts) :
    /\ Emits(req.contexts[i].name)
    /\ LastEmitted(resp.outputContexts, req.contexts[i].name).lifespanCount = 0

\* C20: Cancel Booking Intent emits lifespanCount 0 for every context
\* active in the request; Restart Booking Intent does the same and emits
\* awaiting-booking-type, so a booking-flow context active at Restart does
\* not survive it.
C20_CancelRestartExpireAll ==
  /\ (req.intent = "Cancel Booking Intent" /\ resp.status = 200)
       => ZeroesEveryContext
  /\ (req.intent = "Restart Booking Intent" /\ resp.status = 200)
       => /\ ZeroesEveryContext
          /\ Emits("awaiting-booking-type")
          /\ ~Has(stored, "booking-flow")

(***************************************************************************)
(* C21.  An unmatched intent gets a generic apology and nothing else.      *)
(***************************************************************************)
\* the request named an intent that no block handles, or carried none
Unmatched ==
  \/ req.intent = "Small Talk"
  \/ Has(req, "body") /\ req.body = "no intent"

\* the generic apologies of the handlers
Apologies ==
  {"did_not_get_that", "not_sure_how_to_handle", "did_not_catch",
   "did_not_understand_booking"}

\* C21: a request whose intent matches no handled intent, or that carries no
\* intent, is answered 200 with a generic apology, makes no record-store
\* write and sends no mail, and emits no outputContexts.
C21_UnmatchedApologised ==
  Unmatched
    => /\ resp.status = 200
       /\ resp.prompt \in Apologies
       /\ CallsOf("createBooking") = {}
       /\ CallsOf("sendEmailWithPdf") = {}
       /\ resp.outputContexts = << >>

(***************************************************************************)
(* C22.  Select Venue Intent stores only a matching venue with room.       *)
(***************************************************************************)
\* the venue name the turn selects: the one it gives, else the recorded one
SelectedName ==
  IF Truthy(req.parameters, "venue_name") /\ req.parameters.venue_name # "."
  THEN req.parameters.venue_name
  ELSE IF Truthy(Draft, "venue") THEN Draft.venue ELSE ""

\* the venue records that the selection may store: fetched in this request,
\* same lower-cased name, room for the guests of the draft
Selectable ==
  { i \in 1..Len(VenueRecords) :
      /\ \E c \in CallsOf("getAvailableVenues") : calls[c].ok
      /\ ToLowerCase(VenueRecords[i].space_name) = ToLowerCase(SelectedName)
      /\ VenueRecords[i].standing_capacity >= Threshold(Draft) }

\* C22: in "unified" and "steps", whenever Select Venue Intent emits a
\* booking-flow bag with a venue, venue and venue_id are the name and id of
\* a record fetched in that request whose lower-cased name is the lower-cased
\* input and whose standing capacity is at least the draft's guestCount;
\* when there is no such record no venue and no venue_id is stored.
C22_StoredVenueFits ==
  (handler \in {"steps", "unified"} /\ req.intent = "Select Venue Intent")
    => /\ (EmitsFlowBag /\ Has(FlowBag, "venue"))
            => \E i \in Selectable :
                 /\ FlowBag.venue = VenueRecords[i].space_name
                 /\ Has(FlowBag, "venue_id")
                 /\ FlowBag.venue_id = VenueRecords[i].id
       /\ (Selectable = {} /\ EmitsFlowBag)
            => ~Has(FlowBag, "venue") /\ ~Has(FlowBag, "venue_id")

(***************************************************************************)
(* C23.  A draft with a guest count carries the matching category.         *)
(***************************************************************************)
\* C23: every booking-flow emitted with a positive lifespan that carries
\* guestCount also carries type, and type is "table" exactly when guestCount
\* is below ten and "group" otherwise.
C23_TypeFollowsGuestCount ==
  (EmitsFlowBag /\ Has(FlowBag, "guestCount"))
    => /\ Has(FlowBag, "type")
       /\ FlowBag.type = (IF FlowBag.guestCount < CategoryLimit THEN "table" ELSE "group")

(***************************************************************************)
(* C24.  Capture DateTime Intent takes date and time from the current turn. *)
(***************************************************************************)
\* the turn itself gives a date and a time, and they name a real moment
TurnGivesDateTime ==
  /\ Truthy(req.parameters, "date")
  /\ Truthy(req.parameters, "time")
  /\ ValidDateTime(req.parameters.date, req.parameters.time)

DateTimeKeys == {"bookingDate", "bookingTime", "bookingUTC"}

\* C24: in "steps", Capture DateTime Intent whose turn lacks the date or the
\* time, or gives an invalid one, is answered with a re-prompt, emits no
\* booking-flow and leaves bookingDate, bookingTime and bookingUTC of the
\* draft as they were - whatever an earlier context still carries.
C24_DateTimeFromTurnOnly ==
  (handler = "steps" /\ req.intent = "Capture DateTime Intent" /\ ~TurnGivesDateTime)
    => /\ resp.status = 200
       /\ resp.prompt \in {"need_date_and_time", "bad_date_or_time"}
       /\ ~Emits("booking-flow")
       /\ Pick(ParametersOrEmpty(AsContexts(stored), "booking-flow"), DateTimeKeys)
            = Pick(Draft, DateTimeKeys)

ContactFields ==
  IF handler = "package"
  THEN << [field |-> "full name", turn |-> "person", draft |-> "full_name"],
          [field |-> "mobile number", turn |-> "phone-number", draft |-> "mobile_number"],
          [field |-> "email address", turn |-> "email", draft |-> "email_id"] >>
  ELSE << [field |-> "full name", turn |-> "full_name", draft |-> "full_name"],
          [field |-> "email", turn |-> "email", draft |-> "email_id"],
          [field |-> "phone number", turn |-> "phone_number", draft |-> "phone_number"] >>

\* the fields that neither the turn gives nor a context of the request holds
StillMissing ==
  LET held(f) == \/ Truthy(req.parameters, f.turn)
                 \/ \E i \in 1..Len(req.contexts) :
                      /\ Has(req.contexts[i], "parameters")
                      /\ \/ Truthy(req.contexts[i].parameters, f.turn)
                         \/ Truthy(req.contexts[i].parameters, f.draft)
      missing == SelectSeq(ContactFields, LAMBDA f : ~held(f))
  IN [i \in 1..Len(missing) |-> missing[i].field]

EmitsAlive(name) ==
  Emits(name) /\ LastEmitted(resp.outputContexts, name).lifespanCount > 0

\* C26: on a contact-details turn of "package" or "steps" with a draft, when
\* a field is still missing after the turn's values are merged with the
\* stored ones, the prompt names exactly the missing fields, no context that
\* awaits the confirmation is emitted, and the context that awaits the
\* contact details is emitted again with a positive lifespan.
C26_AsksForExactlyTheMissing ==
  (/\ handler \in {"package", "steps"}
   /\ req.intent \in {"CollectContactDetails", "Capture Contact Details Intent"}
   /\ HasContext(req.contexts, "booking-flow")
   /\ Has(findContext(req.contexts, "booking-flow"), "parameters")
   /\ Len(StillMissing) > 0)
    => /\ resp.status = 200
       /\ resp.prompt = (IF handler = "package" THEN StillNeed(StillMissing)
                          ELSE ImMissing(StillMissing))
       /\ ~EmitsAlive("awaiting-confirmation")
       /\ ~EmitsAlive("awaiting-final-confirmation")
       /\ EmitsAlive(IF handler = "package" THEN "awaiting-guest-details"
                      ELSE "awaiting-contact-details")

(***************************************************************************)
(* C27.  getAvailableVenues never throws.                                  *)
(***************************************************************************)
\* C27: in every revision a call of getAvailableVenues does not throw, and
\* returns the empty list when the request to the record store failed.
C27_LookupNeverThrows ==
  probe.phase = "answered"
    => /\ ~probe.threw
       /\ ~probe.fetched => probe.venues = << >>

(***************************************************************************)
(* C28.  getAvailableVenues returns the named records with room.           *)
(***************************************************************************)
\* the record has a name / a standing capacity of at least m
Named(r) == Has(r, "space_name") /\ r.space_name # ""
Holds(r, m) == Has(r, "standing_capacity") /\ r.standing_capacity >= m

\* C28: in "package" and "unified", getAvailableVenues(m) over a table that
\* was fetched returns, in the order of the table, exactly the records that
\* have a name and a standing capacity of at least m; without a threshold,
\* exactly the records that have a name.
C28_NamedWithRoom ==
  (handler \in {"package", "unified"} /\ probe.phase = "answered" /\ probe.fetched)
    => LET m == probe.guestCount
           due == SelectSeq(probe.records,
                            LAMBDA r : Named(r) /\ (m = 0 \/ Holds(r, m)))
       IN /\ Len(probe.venues) = Len(due)
          /\ \A i \in 1..Len(due) :
               /\ probe.venues[i].id = due[i].id
               /\ probe.venues[i].name = due[i].space_name

\* of a nameless hall for 40 and the rooftop for 40, a party of 40 is
\* offered the rooftop only
C28_RooftopOnly ==
  /\ handler = "unified"
  /\ probe.phase = "answered"
  /\ probe.fetched
  /\ probe.guestCount = 40
  /\ Len(probe.records) = 2
  /\ probe.records[1].id = "recHall"
  /\ probe.records[2].id = "recRooftop"
  /\ Len(probe.venues) = 1
  /\ probe.venues[1].id = "recRooftop"

(***************************************************************************)
(* C29.  Submitted records carry no package, add-on or total.              *)
(***************************************************************************)
\* C29: in every record that createBooking submits, package_name,
\* package_id, selected_add_ons and grand_total are null, for table drafts
\* as well as for group drafts.
C29_PricingFieldsNull ==
  \A i \in Writes : PricingKeys \subseteq calls[i].nulls

(***************************************************************************)
(* C30.  generateGeminiReply always answers with a non-empty string.       *)
(***************************************************************************)
\* what makes generateGeminiReply fall back: fetch not yet assigned, the
\* remote call failed, the body is not JSON, or the first candidate has no
\* text or an empty one
MustFallBack ==
  \/ ~fetch
  \/ probe.remote.kind \in {"rejects", "text"}
  \/ CandidateText(probe.remote.data) \in {<< >>, << "" >>}

\* C30: in "package" and "unified" generateGeminiReply never throws, returns
\* a non-empty string, returns one of its fixed replies whenever it must
\* fall back, and sends at most one request.
C30_AlwaysANonEmptyReply ==
  probe.phase = "replied"
    => /\ ~probe.threw
       /\ probe.reply # ""
       /\ MustFallBack => probe.reply \in {NotReadyText, NoReplyText, ApiErrorText}
       /\ probe.posts <= 1

\* a candidate with an empty text was answered with the fixed apology
C30_EmptyTextApologised ==
  /\ probe.phase = "replied"
  /\ fetch
  /\ probe.remote.kind = "json"
  /\ CandidateText(probe.remote.data) = << "" >>
  /\ probe.reply = NoReplyText
  /\ probe.posts = 1

(***************************************************************************)
(* C31.  sendEmailWithPdf fails quietly without configuration.             *)
(***************************************************************************)
\* C31: sendEmailWithPdf never throws; when the transport configuration or
\* PDF_URL is missing it returns false, and when PDF_URL is missing it
\* hands no message to the transport.
C31_NoMailWithoutSettings ==
  probe.phase = "mailed"
    => /\ ~probe.threw
       /\ (~probe.config.EMAIL_SERVICE_HOST \/ ~probe.config.EMAIL_SERVICE_USER
             \/ ~probe.config.PDF_URL) => ~probe.sent
       /\ ~probe.config.PDF_URL => ~probe.handed

(***************************************************************************)
(* C32.  The reply generator decides nothing.                              *)
(***************************************************************************)
\* what a response decides: the status, the contexts and the calls made
Decided(r) == [status |-> r.status, outputContexts |-> r.outputContexts,
               calls |-> r.calls]

\* C32: for the request last answered, whatever generateGeminiReply returns
\* (a generated text, or any of its fixed replies, with fetch assigned or
\* not), the status, the emitted contexts and the record-store and mail
\* calls are the ones of the response that was given.
C32_ReplyDecidesNothing ==
  (req # NoRequest /\ Has(req, "env"))
    => \A g \in Replies, f \in BOOLEAN :
         Decided(Answer(handler, f, [req EXCEPT !.env.gemini = g]))
           = [status |-> resp.status, outputContexts |-> resp.outputContexts,
              calls |-> calls]

\* a request that wrote a record and zeroed the draft while the reply
\* generator fell back to a fixed reply
C32_WrittenDespiteFallback ==
  /\ Confirming
  /\ resp.status = 200
  /\ resp.fulfillmentText.kind = "fallback"
  /\ GoodWrites # {}
  /\ resp.outputContexts # << >>

Handled == { k \in Deliveries : probe[k].at \in {"handled", "answered"} }

\* both deliveries carried the same booking-flow draft
SameDraftTwice ==
  /\ probe.phase = "race"
  /\ Handled = Deliveries
  /\ probe.first.request.contexts = probe.second.request.contexts
  /\ HasContext(probe.first.request.contexts, "booking-flow")

\* C34: when two Confirm Booking Intent requests of one session that carry
\* the same booking-flow draft have both been handled, in whatever order
\* their steps interleave, the record store has accepted at most one booking
\* record for the draft.
C34_DraftWrittenAtMostOnce ==
  SameDraftTwice => Cardinality(GoodWrites) <= 1

(***************************************************************************)
(* C35.  A cooperative conversation with "steps" ends in one record.       *)
(***************************************************************************)
\* the record id of the venue the caller named
NamedVenueId(name) ==
  LET hits == { i \in 1..Len(VenueRecords) :
                  ToLowerCase(VenueRecords[i].space_name) = ToLowerCase(name) }
  IN VenueRecords[CHOOSE i \in hits : TRUE].id

\* the record carries what the caller supplied
CarriesSupplied(fields, supplied) ==
  /\ DOMAIN supplied = {"booking_type", "number", "date", "time", "venue_name",
                        "full_name", "phone_number", "email"}
  /\ Has(fields, "type") /\ fields.type = supplied.booking_type
  /\ Has(fields, "guestCount") /\ fields.guestCount = supplied.number
  /\ Has(fields, "bookingDate") /\ fields.bookingDate = supplied.date
  /\ Has(fields, "bookingTime") /\ fields.bookingTime = supplied.time.min
  /\ Has(fields, "venue_id") /\ fields.venue_id = NamedVenueId(supplied.venue_name)
  /\ Has(fields, "full_name") /\ fields.full_name = supplied.full_name
  /\ Has(fields, "email_id") /\ fields.email_id = supplied.email
  /\ Has(fields, "phone_number") /\ fields.phone_number = supplied.phone_number

\* the script was played to its end: one createBooking call, accepted, with
\* the supplied values, and the last answer expires booking-flow
Finalized ==
  /\ probe.phase = "talk"
  /\ probe.step = Len(Script)
  /\ Cardinality(CallsOf("createBooking")) = 1
  /\ \A i \in CallsOf("createBooking") :
       calls[i].ok /\ CarriesSupplied(calls[i].fields, probe.supplied)
  /\ resp.status = 200
  /\ ZeroesFlow

\* C35: a conversation with "steps" in which every external call succeeds,
\* the platform returns the emitted contexts and the caller sends Select
\* Booking Type (table or group), Capture Guest Count (g > 0), Capture
\* DateTime (valid), Select Venue (an existing name), Capture Contact Details
\* (all three) and Confirm Booking eventually ends with exactly one
\* createBooking call that carries the supplied guest count, date, time, venue
\* and contact values, answered by a response that expires booking-flow.
C35_CooperativeFinalizes ==
  (probe.phase = "talk" /\ probe.step = 0) ~> Finalized

\* a group inquiry for the second venue record, finalized with mail sent
C35_GroupLeadSubmitted ==
  /\ Finalized
  /\ probe.supplied.booking_type = "group"
  /\ probe.supplied.number = MaxGuestCount
  /\ Emits("group-lead-submitted")
  /\ CallsOf("sendEmailWithPdf") # {}

(***************************************************************************)
(* C36.  "package": a request served before fetch is assigned.             *)
(***************************************************************************)
\* the fixed replies of generateGeminiReply that ask to try again shortly
TryAgainReplies == {"NOT_READY", "API_ERROR"}

\* the answer is one of those replies
AskedToTryAgain ==
  /\ resp.status = 200
  /\ resp.fulfillmentText.kind = "fallback"
  /\ resp.fulfillmentText.of \in TryAgainReplies

\* C36: in "package", whenever the reply to a Confirm Booking Intent request
\* is one of the generator's technical-issue texts that ask to try again, the
\* request created no booking record and its response does not expire
\* booking-flow.
C36_TryAgainLeavesNoTrace ==
  (handler = "package" /\ Confirming /\ AskedToTryAgain)
    => (GoodWrites = {} /\ ~ZeroesFlow)

(***************************************************************************)
(* C37.  The terminal markers follow a successful createBooking only.      *)
(***************************************************************************)
\* the response emits booking-finalized or group-lead-submitted
EmitsMarker == \E m \in TerminalMarkers : Emits(m)

\* createBooking was called in the request and did not return a record
RecordWriteFailed ==
  /\ CallsOf("createBooking") # {}
  /\ GoodWrites = {}

\* C37: in every revision a response emits booking-finalized or
\* group-lead-submitted only when createBooking returned a record in the
\* same request, and a Confirm Booking Intent whose createBooking failed
\* emits neither marker and does not expire booking-flow.
C37_MarkerOnlyAfterRecord ==
  /\ EmitsMarker => GoodWrites # {}
  /\ (Confirming /\ RecordWriteFailed) => (~EmitsMarker /\ ~ZeroesFlow)

(***************************************************************************)
(* C38.  ModifyBookingIntent changes only what the turn supplies.          *)
(***************************************************************************)
\* the draft the request carried
StoredDraft == ParametersOrEmpty(req.contexts, "booking-flow")

\* key k has the same value in both bags, or is in neither
SameAt(a, b, k) == (Has(a, k) <=> Has(b, k)) /\ (Has(a, k) => a[k] = b[k])

Modifying ==
  /\ req.intent = "ModifyBookingIntent"
  /\ resp.status = 200
  /\ EmitsFlowBag

VenueChosen == probe.phase = "venue chosen"

\* C39: the Select Venue Intent of "unified" answers 200 for every shape of
\* venue_name (missing, string, array, non-string), every set of prior
\* contexts and every outcome of the venue fetch and of the reply generator;
\* and when guestCount or bookingUTC is missing from the draft it makes no
\* venue lookup and emits a booking-flow context whose bag holds nothing but
\* the venue name.
C39_SelectVenueAlwaysAnswers ==
  VenueChosen =>
    /\ resp.status = 200
    /\ (~Has(StoredDraft, "guestCount") \/ ~Has(StoredDraft, "bookingUTC"))
         => /\ CallsOf("getAvailableVenues") = {}
            /\ EmitsFlowBag
            /\ DOMAIN FlowBag \subseteq {"venue"}
            /\ probe.shape.kind = "array" /\ Len(probe.shape.value) > 0
                 => SameAt(FlowBag, [venue |-> probe.shape.value[Len(probe.shape.value)]],
                           "venue")

\* a venue_name that is a number, on a complete draft: toLowerCase throws
\* and the answer is the apology of the inner catch
C39_NumberNameApologised ==
  /\ VenueChosen
  /\ probe.shape.kind = "number"
  /\ Has(StoredDraft, "guestCount") /\ Has(StoredDraft, "bookingUTC")
  /\ resp.status = 200
  /\ resp.prompt = "venue_technical_issue"
  /\ CallsOf("getAvailableVenues") = {}

=============================================================================
